---------------------------- MODULE Spec2Model ----------------------------
(***************************************************************************)
(* Verification model of the Stonks server core and chat client:           *)
(*   - the CBOE chain cache            (server/services/cboe.ts fetchChain)*)
(*   - the chat turn orchestrator      (server/services/ai.ts streamChat)  *)
(*   - the get_option_chain executor   (server/routes/chat.ts)             *)
(*   - the filtered chain query        (server/services/cboe.ts)           *)
(*   - the OCC key of a watched option (server/routes/holdings.ts)         *)
(*   - getOptionMid and calcIV30       (server/services/cboe.ts)           *)
(*   - the FILE_UPDATE block parser    (client/src/components/Chat)        *)
(*   - the chat client                 (client/src/components/Chat)        *)
(*   - the account routes              (server/routes/accounts.ts)         *)
(*   - the holdings routes             (server/routes/holdings.ts)         *)
(* Each component has its own specification over the shared variables; the *)
(* variables of the other components are left unchanged by it.             *)
(***************************************************************************)
EXTENDS Integers, Sequences, FiniteSets, TLC

(***************************************************************************)
(* Units.  Wall-clock time of the cache is counted in minutes (TTL_MS is   *)
(* 5 * 60 * 1000 ms = 5 minutes).                                          *)
(***************************************************************************)

VARIABLES
    \* ---- chain cache ----
    now,        \* Date.now(), in minutes
    cache,      \* the module-level Map ticker -> { ts, options }
    calls,      \* one record per in-flight / finished fetchChain call
    lastOk,     \* history: per ticker, the last successful upstream fetch
    lastDone,   \* history: per ticker, the caller whose fetch completed last
    \* ---- chat turn ----
    turn,       \* the locals of one streamChat call and of its HTTP response
    events,     \* what was written to the response, in order
    messages,   \* the working message list (anthropicMessages / chat history)
    hist,       \* history: the requests made and the executor calls of the turn
    \* ---- chain query ----
    query,      \* the inputs of one getFilteredChain call and what it returned
    \* ---- symbol codec ----
    codec,      \* one contract, the key built for it and the key decoded
    \* ---- chain consumers ----
    scan,       \* one chain and what getOptionMid / calcIV30 made of it
    \* ---- mutation protocol parser ----
    ext,        \* one response text and what extractFileUpdate made of it
    \* ---- chat client ----
    chat,       \* the state of the Chat component and of its requests
    \* ---- accounts ----
    accts,      \* the accounts directory, the active id and the requests
    \* ---- holdings routes ----
    store       \* the account file and the overlapping holdings requests

cacheVars == <<now, cache, calls, lastOk, lastDone>>

turnVars == <<turn, events, messages, hist>>

\* the variables of the pure components
pureVars == <<query, codec, scan, ext>>

\* the variables of the client and of the account routes
appVars == <<chat, accts, store>>

vars ==
    <<now, cache, calls, lastOk, lastDone, turn, events, messages, hist, query,
      codec, scan, ext, chat, accts, store>>

(***************************************************************************)
(*                              CHAIN CACHE                                *)
(***************************************************************************)

\* const TTL_MS = 5 * 60 * 1000, in minutes
TTL_MS == 5

\* the clock of the model runs from 0 to MaxTime minutes
MaxTime == 6

\* the two request handlers whose fetchChain calls may overlap
Callers == {1, 2}

Tickers == {"XYZ", "ABC"}

\* The option lists the upstream may serve (contracts are opaque here).
UpstreamLists == {<<"o1", "o2">>, <<"o3">>}

\* data.data.options of an upstream document: a list, or null/undefined
UpstreamBodies ==
    {[isNull |-> TRUE, options |-> <<>>]} \cup
    {[isNull |-> FALSE, options |-> l] : l \in UpstreamLists}

\* `data.data.options ?? []`
OptionsOrEmpty(body) == IF body.isNull THEN <<>> ELSE body.options

\* cache.get(ticker) of a ticker never fetched: undefined
NoEntry == [has |-> FALSE, ts |-> 0, options |-> <<>>]

NoFetch == [has |-> FALSE, at |-> 0, options |-> <<>>]

IdleCall ==
    [pc |-> "idle", ticker |-> "XYZ", reqs |-> 0, result |-> <<>>,
     age |-> 0, freshAtCall |-> FALSE, listAtCall |-> <<>>,
     upFailed |-> FALSE, fetched |-> <<>>, doneAt |-> 0, overlap |-> {}]

\* Mutant of IsFresh: the entry is still served when exactly TTL has elapsed.
IsFreshInclusive(hit, t) == hit.has /\ t - hit.ts <= TTL_MS

\* `hit && Date.now() - hit.ts < TTL_MS`
IsFresh(hit, t) == hit.has /\ t - hit.ts < TTL_MS

\* Mutant of CacheSet: an entry that is still fresh is not overwritten.
CacheSetFirstWins(c, ticker, t, options) ==
    IF IsFresh(c[ticker], t) THEN c
    ELSE [c EXCEPT ![ticker] = [has |-> TRUE, ts |-> t, options |-> options]]

\* `cache.set(ticker, { ts: Date.now(), options })`
CacheSet(c, ticker, t, options) ==
    [c EXCEPT ![ticker] = [has |-> TRUE, ts |-> t, options |-> options]]

\* Mutant of OnUpstreamFailure: a failed refetch falls back to the stale entry.
OnUpstreamFailureStale(call, hit, t) ==
    IF hit.has
    THEN [call EXCEPT !.pc = "returned", !.result = hit.options,
                      !.age = t - hit.ts, !.upFailed = TRUE]
    ELSE [call EXCEPT !.pc = "thrown", !.upFailed = TRUE]

\* Mutant of OnUpstreamFailure: the upstream request is issued again.
OnUpstreamFailureRetry(call, hit, t) ==
    [call EXCEPT !.pc = "awaitFetch", !.reqs = @ + 1, !.upFailed = TRUE]

\* `if (!r.ok) throw new Error(...)`, a rejected fetch, a rejected r.json()
OnUpstreamFailure(call, hit, t) ==
    [call EXCEPT !.pc = "thrown", !.upFailed = TRUE]

InFlight(c) == calls[c].pc \in {"awaitFetch", "awaitJson"}

CacheInit ==
    /\ now = 0
    /\ cache = [t \in Tickers |-> NoEntry]
    /\ calls = [c \in Callers |-> IdleCall]
    /\ lastOk = [t \in Tickers |-> NoFetch]
    /\ lastDone = [t \in Tickers |-> 0]

\* time passes
Tick ==
    /\ now < MaxTime
    /\ now' = now + 1
    /\ UNCHANGED <<cache, calls, lastOk, lastDone>>
    /\ UNCHANGED <<turnVars, pureVars, appVars>>

\* fetchChain(ticker) up to its first await: the cache lookup
FetchChainCall(c, t) ==
    /\ calls[c].pc = "idle"
    /\ LET hit    == cache[t]
           others == {d \in Callers \ {c} : InFlight(d) /\ calls[d].ticker = t}
           base   == [IdleCall EXCEPT
                        !.ticker = t,
                        !.freshAtCall = (lastOk[t].has /\ now - lastOk[t].at < TTL_MS),
                        !.listAtCall = IF lastOk[t].has /\ now - lastOk[t].at < TTL_MS
                                       THEN lastOk[t].options ELSE <<>>]
       IN  IF IsFresh(hit, now)
           THEN calls' = [calls EXCEPT ![c] =
                    [base EXCEPT !.pc = "returned", !.result = hit.options,
                                 !.age = now - hit.ts]]
           ELSE calls' = [d \in Callers |->
                    IF d = c
                    THEN [base EXCEPT !.pc = "awaitFetch", !.reqs = 1,
                                      !.overlap = others]
                    ELSE IF d \in others
                         THEN [calls[d] EXCEPT !.overlap = @ \cup {c}]
                         ELSE calls[d]]
    /\ UNCHANGED <<now, cache, lastOk, lastDone>>
    /\ UNCHANGED <<turnVars, pureVars, appVars>>

\* `await fetch(...)` settles: ok is r.ok (a rejected fetch is a failure too)
FetchSettles(c, ok) ==
    /\ calls[c].pc = "awaitFetch"
    /\ calls' = [calls EXCEPT ![c] =
          IF ok THEN [@ EXCEPT !.pc = "awaitJson"]
          ELSE OnUpstreamFailure(@, cache[calls[c].ticker], now)]
    /\ UNCHANGED <<now, cache, lastOk, lastDone>>
    /\ UNCHANGED <<turnVars, pureVars, appVars>>

\* `await r.json()` resolves with data.data.options = body; then the cache is
\* set and the list returned, with no await in between.
JsonResolves(c, body) ==
    /\ calls[c].pc = "awaitJson"
    /\ LET t       == calls[c].ticker
           options == OptionsOrEmpty(body)
       IN  /\ cache' = CacheSet(cache, t, now, options)
           /\ calls' = [calls EXCEPT ![c] =
                 [@ EXCEPT !.pc = "returned", !.result = options,
                           !.fetched = options, !.doneAt = now]]
           /\ lastOk' = [lastOk EXCEPT ![t] =
                 [has |-> TRUE, at |-> now, options |-> options]]
           /\ lastDone' = [lastDone EXCEPT ![t] = c]
    /\ UNCHANGED now
    /\ UNCHANGED <<turnVars, pureVars, appVars>>

\* `await r.json()` rejects, or the document has no data object
JsonRejects(c) ==
    /\ calls[c].pc = "awaitJson"
    /\ calls' = [calls EXCEPT ![c] = OnUpstreamFailure(@, cache[calls[c].ticker], now)]
    /\ UNCHANGED <<now, cache, lastOk, lastDone>>
    /\ UNCHANGED <<turnVars, pureVars, appVars>>

\* the caller consumes the settled promise; the slot is free for a new call
CallConsumed(c) ==
    /\ calls[c].pc \in {"returned", "thrown"}
    /\ calls' = [d \in Callers |->
          IF d = c THEN IdleCall
          ELSE [calls[d] EXCEPT !.overlap = @ \ {c}]]
    /\ lastDone' = [t \in Tickers |-> IF lastDone[t] = c THEN 0 ELSE lastDone[t]]
    /\ UNCHANGED <<now, cache, lastOk>>
    /\ UNCHANGED <<turnVars, pureVars, appVars>>

CacheNext ==
    \/ Tick
    \/ \E c \in Callers, t \in Tickers : FetchChainCall(c, t)
    \/ \E c \in Callers, ok \in BOOLEAN : FetchSettles(c, ok)
    \/ \E c \in Callers, body \in UpstreamBodies : JsonResolves(c, body)
    \/ \E c \in Callers : JsonRejects(c)
    \/ \E c \in Callers : CallConsumed(c)

(***************************************************************************)
(*                 SYMBOL DECODING (services/cboe.ts parseOCC)             *)
(* A symbol is a sequence of one-character strings.  A strike is carried   *)
(* as the integer parseInt(strikeStr), i.e. in thousandths of a dollar, as *)
(* are underlying prices.                                                  *)
(***************************************************************************)

Digits == {"0", "1", "2", "3", "4", "5", "6", "7", "8", "9"}

UpperCase ==
    {"A", "B", "C", "D", "E", "F", "G", "H", "I", "J", "K", "L", "M",
     "N", "O", "P", "Q", "R", "S", "T", "U", "V", "W", "X", "Y", "Z"}

DigitVal ==
    ("0" :> 0) @@ ("1" :> 1) @@ ("2" :> 2) @@ ("3" :> 3) @@ ("4" :> 4) @@
    ("5" :> 5) @@ ("6" :> 6) @@ ("7" :> 7) @@ ("8" :> 8) @@ ("9" :> 9)

RECURSIVE ParseInt(_)
\* parseInt of a string of decimal digits
ParseInt(ds) ==
    IF ds = <<>> THEN 0
    ELSE 10 * ParseInt(SubSeq(ds, 1, Len(ds) - 1)) + DigitVal[ds[Len(ds)]]

\* the width of the fixed suffix: 6 date digits, C or P, 8 strike digits
SuffixLen == 15

\* Mutant of MatchesOCC: any character is taken for the kind.
MatchesOCCAnyKind(sym) ==
    /\ Len(sym) > SuffixLen
    /\ LET n == Len(sym) - SuffixLen
       IN  /\ \A i \in 1 .. n : sym[i] \in UpperCase
           /\ \A i \in n + 1 .. n + 6 : sym[i] \in Digits
           /\ \A i \in n + 8 .. n + SuffixLen : sym[i] \in Digits

\* whether /^([A-Z]+)(\d{2})(\d{2})(\d{2})([CP])(\d{8})$/ matches
MatchesOCC(sym) ==
    /\ Len(sym) > SuffixLen
    /\ LET n == Len(sym) - SuffixLen
       IN  /\ \A i \in 1 .. n : sym[i] \in UpperCase
           /\ \A i \in n + 1 .. n + 6 : sym[i] \in Digits
           /\ sym[n + 7] \in {"C", "P"}
           /\ \A i \in n + 8 .. n + SuffixLen : sym[i] \in Digits

NoParse ==
    [ok |-> FALSE, expiry |-> <<>>, type |-> "", strike |-> 0]

\* parseOCC: null, or { expiry: `20yy-mm-dd`, type, strike }
ParseOCC(sym) ==
    IF ~MatchesOCC(sym) THEN NoParse
    ELSE LET n == Len(sym) - SuffixLen
         IN  [ok     |-> TRUE,
              expiry |-> <<"2", "0">> \o SubSeq(sym, n + 1, n + 2) \o <<"-">>
                         \o SubSeq(sym, n + 3, n + 4) \o <<"-">>
                         \o SubSeq(sym, n + 5, n + 6),
              type   |-> IF sym[n + 7] = "C" THEN "call" ELSE "put",
              strike |-> ParseInt(SubSeq(sym, n + 8, n + SuffixLen))]

(***************************************************************************)
(* Time of the chain query, in half days since 1970-01-01T00:00Z.          *)
(***************************************************************************)

\* days from 1970-01-01 to the civil date y-m-d (what Date makes of it)
DaysFromCivil(y, m, d) ==
    LET yy  == IF m <= 2 THEN y - 1 ELSE y
        era == yy \div 400
        yoe == yy - era * 400
        mp  == IF m > 2 THEN m - 3 ELSE m + 9
        doy == (153 * mp + 2) \div 5 + d - 1
        doe == yoe * 365 + yoe \div 4 - yoe \div 100 + doy
    IN  era * 146097 + doe - 719468

\* `new Date(expiry + 'T12:00:00Z').getTime()`, in half days: noon of the day
ExpiryNoon(expiry) ==
    2 * DaysFromCivil(ParseInt(SubSeq(expiry, 1, 4)),
                      ParseInt(SubSeq(expiry, 6, 7)),
                      ParseInt(SubSeq(expiry, 9, 10))) + 1

\* Math.round of a number given in halves: halves round up
MathRound(halves) == (halves + 1) \div 2

(***************************************************************************)
(*            CHAIN QUERY (services/cboe.ts getFilteredChain)              *)
(* Quotes are in cents; a mid is carried in half cents (bid + ask).        *)
(***************************************************************************)

\* `results.slice(0, Math.min(maxResults, 50))`: the hard cap
HARD_CAP == 50

\* an absent (undefined) property and a present one
Undef == [def |-> FALSE, v |-> 0]

Val(x) == [def |-> TRUE, v |-> x]

\* destructuring default / `??`
OrDefault(o, d) == IF o.def THEN o.v ELSE d

Min(a, b) == IF a <= b THEN a ELSE b

Max(a, b) == IF a >= b THEN a ELSE b

\* Array.prototype.slice(0, n) for an integer n
SliceTo(seq, n) ==
    SubSeq(seq, 1, IF n < 0 THEN Max(Len(seq) + n, 0) ELSE Min(n, Len(seq)))

\* the filter after the destructuring defaults of getFilteredChain
Defaults(filter) ==
    [type       |-> OrDefault(filter.type, "both"),
     dteMin     |-> OrDefault(filter.dteMin, 20),
     dteMax     |-> OrDefault(filter.dteMax, 90),
     otmOnly    |-> OrDefault(filter.otmOnly, TRUE),
     maxResults |-> OrDefault(filter.maxResults, 25),
     underlyingPrice |-> filter.underlyingPrice]

\* dte of a parsed contract in half days: 2 * (expiryTs - now) / 86400
DteHalves(parsed, nowHalf) == ExpiryNoon(parsed.expiry) - nowHalf

\* `mid = (opt.bid + opt.ask) / 2`, in half cents
MidOf(opt) == opt.bid + opt.ask

\* Mutant of Liquid: only a negative mid is dropped.
LiquidOrZero(opt) == ~(MidOf(opt) < 0)

\* `if (mid <= 0) continue`
Liquid(opt) == ~(MidOf(opt) <= 0)

\* Mutant of IsOTM: a contract at the money counts as out of the money.
IsOTMInclusive(parsed, price) ==
    IF parsed.type = "call" THEN parsed.strike >= price
    ELSE parsed.strike <= price

\* `isOTM`: a call above the underlying price, a put below it
IsOTM(parsed, price) ==
    IF parsed.type = "call" THEN parsed.strike > price
    ELSE parsed.strike < price

\* the body of the loop over options: whether opt is pushed to results
Passes(opt, f, nowHalf) ==
    LET parsed == ParseOCC(opt.option)
    IN  /\ parsed.ok
        /\ ~(f.type = "calls" /\ parsed.type # "call")
        /\ ~(f.type = "puts" /\ parsed.type # "put")
        /\ ~(DteHalves(parsed, nowHalf) < 2 * f.dteMin
               \/ DteHalves(parsed, nowHalf) > 2 * f.dteMax)
        /\ (f.otmOnly /\ f.underlyingPrice.def) =>
              IsOTM(parsed, f.underlyingPrice.v)
        /\ Liquid(opt)

\* the FilteredContract pushed for opt
Project(opt, nowHalf) ==
    LET parsed == ParseOCC(opt.option)
    IN  [type |-> parsed.type, strike |-> parsed.strike,
         expiry |-> parsed.expiry,
         dte |-> MathRound(DteHalves(parsed, nowHalf)),
         bid |-> opt.bid, ask |-> opt.ask, mid |-> MidOf(opt)]

Abs(x) == IF x < 0 THEN -x ELSE x

\* Mutant of Compare: the strike distance is compared before the dte.
CompareStrikeFirst(a, b, price) ==
    IF price.def /\ Abs(a.strike - price.v) # Abs(b.strike - price.v)
    THEN Abs(a.strike - price.v) - Abs(b.strike - price.v)
    ELSE a.dte - b.dte

\* the comparator given to results.sort
Compare(a, b, price) ==
    IF a.dte # b.dte THEN a.dte - b.dte
    ELSE IF price.def
         THEN Abs(a.strike - price.v) - Abs(b.strike - price.v)
         ELSE a.strike - b.strike

\* Where rs[i] lands: behind every element that compares smaller, and behind
\* the earlier ones that compare equal (the sort is stable).
SortRank(rs, price) ==
    [i \in 1 .. Len(rs) |->
        Cardinality({j \in 1 .. Len(rs) :
            LET c == Compare(rs[j], rs[i], price)
            IN  c < 0 \/ (c = 0 /\ j < i)})]

\* Array.prototype.sort with Compare: a stable sort
SortResults(rs, price) ==
    LET rank == SortRank(rs, price)
    IN  [k \in 1 .. Len(rs) |-> rs[CHOOSE i \in 1 .. Len(rs) : rank[i] = k - 1]]

\* results before the sort: the options that pass, projected, in chain order
Collected(options, f, nowHalf) ==
    LET kept == SelectSeq(options, LAMBDA o : Passes(o, f, nowHalf))
    IN  [i \in 1 .. Len(kept) |-> Project(kept[i], nowHalf)]

\* `results.slice(0, Math.min(maxResults, 50))`
Truncate(rs, maxResults) == SliceTo(rs, Min(maxResults, HARD_CAP))

\* getFilteredChain once fetchChain has resolved with options
GetFilteredChain(options, filter, nowHalf) ==
    LET f == Defaults(filter)
    IN  Truncate(SortResults(Collected(options, f, nowHalf), f.underlyingPrice),
                 f.maxResults)

\* The filter makeToolExecutor builds from the tool input and the price map:
\* `input.x ?? default`, `input.otm_only !== false`,
\* `Math.min(Number(input.max_results ?? 25), 50)`.
ExecutorFilter(input, price) ==
    [type       |-> Val(OrDefault(input.type, "both")),
     dteMin     |-> Val(OrDefault(input.dteMin, 20)),
     dteMax     |-> Val(OrDefault(input.dteMax, 90)),
     otmOnly    |-> Val(~(input.otmOnly.def /\ input.otmOnly.v = FALSE)),
     maxResults |-> Val(Min(OrDefault(input.maxResults, 25), HARD_CAP)),
     underlyingPrice |-> price]

(***************************************************************************)
(*                     TOOL EXECUTOR (routes/chat.ts)                      *)
(***************************************************************************)

\* The tool invocations a provider may request: name and input.ticker
\* (an empty ticker stands for an input without a ticker field).
GetXYZ == [name |-> "get_option_chain", ticker |-> "XYZ"]

GetNoTicker == [name |-> "get_option_chain", ticker |-> ""]

UnknownTool == [name |-> "get_quote", ticker |-> "XYZ"]

\* whether the executor gets as far as `await getFilteredChain(...)`
ReachesChain(name, ticker) == name = "get_option_chain" /\ ticker # ""

NoChain == [threw |-> FALSE, rows |-> 0]

\* What getFilteredChain does when the executor awaits it: it rejects
\* (fetchChain threw) or resolves with n contracts.
ChainOutcomes ==
    {[threw |-> TRUE, rows |-> 0], NoChain, [threw |-> FALSE, rows |-> 2]}

Thrown == [kind |-> "THROWN", rows |-> 0]

\* no result (yet)
NoResult == [kind |-> "", rows |-> 0]

\* the texts the executor can resolve with
TextKinds ==
    {"Unknown tool", "Error: ticker is required", "Error fetching options",
     "No options matched", "table"}

\* Mutant of ToolExecutor: the try/catch around getFilteredChain is missing.
ToolExecutorNoCatch(name, ticker, chain) ==
    IF name # "get_option_chain" THEN [kind |-> "Unknown tool", rows |-> 0]
    ELSE IF ticker = "" THEN [kind |-> "Error: ticker is required", rows |-> 0]
    ELSE IF chain.threw THEN Thrown
    ELSE IF chain.rows = 0 THEN [kind |-> "No options matched", rows |-> 0]
    ELSE [kind |-> "table", rows |-> chain.rows]

\* makeToolExecutor: the text the executor resolves with
ToolExecutor(name, ticker, chain) ==
    IF name # "get_option_chain" THEN [kind |-> "Unknown tool", rows |-> 0]
    ELSE IF ticker = "" THEN [kind |-> "Error: ticker is required", rows |-> 0]
    ELSE IF chain.threw THEN [kind |-> "Error fetching options", rows |-> 0]
    ELSE IF chain.rows = 0 THEN [kind |-> "No options matched", rows |-> 0]
    ELSE [kind |-> "table", rows |-> chain.rows]

(***************************************************************************)
(* The inputs of the chain query specification.                            *)
(***************************************************************************)

DigitChar == <<"0", "1", "2", "3", "4", "5", "6", "7", "8", "9">>

RECURSIVE NumToString(_)
\* Number.prototype.toString of a non-negative integer
NumToString(n) ==
    IF n < 10 THEN <<DigitChar[n + 1]>>
    ELSE Append(NumToString(n \div 10), DigitChar[(n % 10) + 1])

RECURSIVE PadStart(_, _)
\* String.prototype.padStart(width, '0')
PadStart(ds, width) ==
    IF Len(ds) >= width THEN ds ELSE PadStart(<<"0">> \o ds, width)

\* Mutant of StrikeField: the scaled strike is not padded.
StrikeFieldUnpadded(strike) == NumToString(strike)

\* the strike field of a symbol: `Math.round(strike * 1000).toString()
\* .padStart(8, '0')`, for a strike given in thousandths
StrikeField(strike) == PadStart(NumToString(strike), 8)

\* the symbol of an XYZ contract
XyzSymbol(yymmdd, cp, strike) ==
    <<"X", "Y", "Z">> \o yymmdd \o <<cp>> \o StrikeField(strike)

\* two expiries: 2026-11-22 and 2026-12-02
Exp1122 == <<"2", "6", "1", "1", "2", "2">>

Exp1202 == <<"2", "6", "1", "2", "0", "2">>

\* The time of the query: 2026-11-02 at 00:00Z or at 12:00Z, in half days
\* (the expiries are 20 / 30 days, or 20.5 / 30.5 days, away).
QueryTimes ==
    {2 * DaysFromCivil(2026, 11, 2), 2 * DaysFromCivil(2026, 11, 2) + 1}

\* The records an upstream chain is made of in the query specification:
\* calls and puts around 105, two expiries, a zero and a negative mid, and a
\* record whose symbol does not decode.
QuoteBook ==
    {[option |-> XyzSymbol(Exp1202, "C", 100000), bid |-> 200, ask |-> 400],
     [option |-> XyzSymbol(Exp1202, "C", 110000), bid |-> 100, ask |-> 101],
     [option |-> XyzSymbol(Exp1122, "C", 120000), bid |-> 50, ask |-> 60],
     [option |-> XyzSymbol(Exp1202, "P", 100000), bid |-> 0, ask |-> 5],
     [option |-> XyzSymbol(Exp1122, "P", 110000), bid |-> 0, ask |-> 0],
     [option |-> XyzSymbol(Exp1202, "C", 120000), bid |-> -5, ask |-> 0],
     [option |-> <<"X", "Y", "Z">> \o Exp1202 \o <<"X">> \o StrikeField(110000),
      bid |-> 100, ask |-> 100]}

\* chains of up to MaxChain records of the quote book
MaxChain == 2

\* A long chain of n liquid out-of-the-money calls, alternating between the
\* two expiries, strikes descending from 170: more contracts than the hard
\* cap.
LongChain(n) ==
    [i \in 1 .. n |->
        [option |-> XyzSymbol(IF i % 2 = 0 THEN Exp1202 ELSE Exp1122, "C",
                              1000 * (170 - i)),
         bid |-> 100, ask |-> 120]]

LongChainLengths == {51, 52}

Chains ==
    UNION {[1 .. n -> QuoteBook] : n \in 0 .. MaxChain}
      \cup {LongChain(n) : n \in LongChainLengths}

\* The filters a caller (or a tool input) may give: each field absent or set.
Filters ==
    {[type |-> ty, dteMin |-> w[1], dteMax |-> w[2], otmOnly |-> op[1],
      underlyingPrice |-> op[2], maxResults |-> mx] :
        ty \in {Undef, Val("calls"), Val("puts")},
        w  \in {<<Undef, Undef>>, <<Val(21), Val(30)>>},
        op \in {<<Undef, Val(105000)>>, <<Val(FALSE), Val(105000)>>,
                <<Undef, Undef>>, <<Val(TRUE), Val(110000)>>},
        mx \in {Undef, Val(-1), Val(0), Val(2), Val(60)}}

NoQuery ==
    [pc |-> "idle", options |-> <<>>, nowHalf |-> 0,
     filter |-> [type |-> Undef, dteMin |-> Undef, dteMax |-> Undef,
                 otmOnly |-> Undef, underlyingPrice |-> Undef,
                 maxResults |-> Undef],
     out |-> <<>>, text |-> NoResult]

\* no query is running (the state of the query outside SpecQuery)
QueryIdle == query = NoQuery

\* getFilteredChain(ticker, filter) is about to be called, directly or by
\* the tool executor, at some time, with some chain upstream
QueryInit ==
    \E ch \in Chains, f \in Filters, t \in QueryTimes :
        query = [NoQuery EXCEPT !.pc = "ready", !.options = ch,
                                !.filter = f, !.nowHalf = t]

\* getFilteredChain called directly; fetchChain resolves with the chain
QueryDirect ==
    /\ query.pc = "ready"
    /\ query' = [query EXCEPT !.pc = "returned",
           !.out = GetFilteredChain(query.options, query.filter, query.nowHalf)]
    /\ UNCHANGED <<cacheVars, turnVars, codec, scan, ext, appVars>>

\* getFilteredChain called directly; fetchChain throws and so does the query
QueryDirectThrows ==
    /\ query.pc = "ready"
    /\ query' = [query EXCEPT !.pc = "threw"]
    /\ UNCHANGED <<cacheVars, turnVars, codec, scan, ext, appVars>>

\* The tool executor runs get_option_chain with the filter as its input and
\* the underlying price of the price map; ok: fetchChain resolves.
QueryViaTool(ok) ==
    /\ query.pc = "ready"
    /\ LET f   == ExecutorFilter(query.filter, query.filter.underlyingPrice)
           out == IF ok THEN GetFilteredChain(query.options, f, query.nowHalf)
                  ELSE <<>>
       IN  query' = [query EXCEPT !.pc = "toolReturned", !.out = out,
               !.text = ToolExecutor("get_option_chain", "XYZ",
                                     [threw |-> ~ok, rows |-> Len(out)])]
    /\ UNCHANGED <<cacheVars, turnVars, codec, scan, ext, appVars>>

QueryNext ==
    \/ QueryDirect
    \/ QueryDirectThrows
    \/ \E ok \in BOOLEAN : QueryViaTool(ok)

(***************************************************************************)
(*                  CONVERSATION ORCHESTRATOR (services/ai.ts)             *)
(***************************************************************************)

\* const MAX_ROUNDS = 5 (streamAnthropic); the literal 5 of streamGemini
MAX_ROUNDS == 5

\* number of chunks a final stream may carry
MaxChunks == 2

Providers == {"anthropic", "gemini"}

\* The tool-use responses a provider may give in a tool round.
ToolResponses == {<<GetXYZ>>, <<UnknownTool, GetNoTicker>>}

\* The chunks of a final stream: text deltas (possibly empty) and, for
\* Anthropic, events that are no text delta.
StreamChunks ==
    {[isText |-> TRUE, text |-> "a"], [isText |-> TRUE, text |-> "b"],
     [isText |-> TRUE, text |-> ""], [isText |-> FALSE, text |-> ""]}

UserMessage == [role |-> "user", kind |-> "text", items |-> <<>>]

TextEvent(t) == [type |-> "text", text |-> t, call |-> GetNoTicker]

ToolCallEvent(b) == [type |-> "tool_call", text |-> "", call |-> b]

DoneEvent == [type |-> "done", text |-> "", call |-> GetNoTicker]

NoRequest == [mode |-> "none", messages |-> <<>>]

TurnLocals ==
    [pc |-> "idle", provider |-> "anthropic", hasExecutor |-> FALSE,
     round |-> 0, blocks |-> <<>>, idx |-> 0, results |-> <<>>,
     chunks |-> 0, headersSent |-> FALSE, res |-> "open"]

NoHistory ==
    [nCreate |-> 0, nStream |-> 0, lastRequest |-> NoRequest, nExec |-> 0,
     lastExec |-> [call |-> GetNoTicker, chain |-> NoChain, result |-> NoResult],
     streamed |-> <<>>, providerFailed |-> FALSE, toolRounds |-> 0,
     noToolRounds |-> 0]

\* no turn is running (the state of the orchestrator outside SpecTurn)
TurnIdle ==
    /\ turn = TurnLocals
    /\ events = <<>>
    /\ messages = <<>>
    /\ hist = NoHistory

\* A chat request arrives: streamChat(messages, systemPrompt, provider, res,
\* toolExecutor) is about to run; the caller's messages end with a user turn.
TurnInit ==
    /\ \E p \in Providers, e \in BOOLEAN :
          turn = [TurnLocals EXCEPT !.pc = "start", !.provider = p,
                                    !.hasExecutor = e]
    /\ events = <<>>
    /\ messages = <<UserMessage>>
    /\ hist = NoHistory

\* Mutant of LoopContinues: the bound is tested with <=, one round too many.
LoopContinuesOffByOne(round, hasExecutor) == round <= MAX_ROUNDS /\ hasExecutor

\* Mutant of LoopContinues: the loop does not test for the executor.
LoopContinuesNoExecutorTest(round, hasExecutor) == round < MAX_ROUNDS

\* `round < MAX_ROUNDS && toolExecutor` (Anthropic); `round < 5` behind the
\* `if (!toolExecutor) ... return` of streamGemini
LoopContinues(round, hasExecutor) == round < MAX_ROUNDS /\ hasExecutor

\* res.write of an event: the first write sends the headers
Sse(t, ev) == [t EXCEPT !.headersSent = TRUE]

\* `res.write('data: [DONE]\n\n'); res.end()`
EndOfTurn(t) == [t EXCEPT !.pc = "done", !.headersSent = TRUE, !.res = "ended"]

\* a provider request is issued in the given mode over the message list
Requested(h, mode, msgs) ==
    [h EXCEPT !.nCreate = IF mode = "create" THEN @ + 1 ELSE @,
              !.nStream = IF mode = "stream" THEN @ + 1 ELSE @,
              !.lastRequest = [mode |-> mode, messages |-> msgs]]

\* What follows the tool loop once it is left by exhaustion:
\* Anthropic issues the final `messages.stream` request over the accumulated
\* list; Gemini writes [DONE] and ends the response.
\* <<locals, history, whether [DONE] was written>>
AfterToolLoop(t, h, msgs) ==
    IF t.provider = "anthropic"
    THEN <<[t EXCEPT !.pc = "awaitStream"], Requested(h, "stream", msgs), FALSE>>
    ELSE <<EndOfTurn(t), h, TRUE>>

\* The top of the tool loop with the loop variable at t.round:
\* the next non-streaming request, or what follows the loop.
LoopTop(t, h, msgs) ==
    IF LoopContinues(t.round, t.hasExecutor)
    THEN <<[t EXCEPT !.pc = "awaitCreate"], Requested(h, "create", msgs), FALSE>>
    ELSE AfterToolLoop(t, h, msgs)

\* streamChat sets the headers and enters streamAnthropic / streamGemini,
\* which run up to their first await.  streamGemini without an executor
\* streams directly (`if (!toolExecutor) { ... return }`).
StartTurn ==
    /\ turn.pc = "start"
    /\ IF turn.provider = "gemini" /\ ~turn.hasExecutor
       THEN /\ turn' = [turn EXCEPT !.pc = "awaitStream"]
            /\ hist' = Requested(hist, "stream", messages)
            /\ events' = events
       ELSE LET nxt == LoopTop(turn, hist, messages)
            IN  /\ turn' = nxt[1]
                /\ hist' = nxt[2]
                /\ events' = IF nxt[3] THEN Append(events, DoneEvent) ELSE events
    /\ UNCHANGED messages
    /\ UNCHANGED <<cacheVars, pureVars, appVars>>

\* A tool-round request resolves without a tool invocation:
\* Anthropic breaks out of the loop and issues the final streaming request;
\* Gemini forwards result.response.text() as one event, breaks, and ends.
NoToolResponse(text) ==
    /\ turn.pc = "awaitCreate"
    /\ IF turn.provider = "anthropic"
       THEN /\ text = ""
            /\ turn' = [turn EXCEPT !.pc = "awaitStream"]
            /\ hist' = [Requested(hist, "stream", messages) EXCEPT
                           !.noToolRounds = @ + 1]
            /\ events' = events
       ELSE /\ turn' = EndOfTurn(Sse(turn, TextEvent(text)))
            /\ hist' = [hist EXCEPT !.noToolRounds = @ + 1,
                                    !.streamed = Append(@, text)]
            /\ events' = events \o <<TextEvent(text), DoneEvent>>
    /\ UNCHANGED messages
    /\ UNCHANGED <<cacheVars, pureVars, appVars>>

\* A tool-round request resolves with tool invocations: the first one is
\* announced and the executor is called for it.
ToolUseResponse(blocks) ==
    /\ turn.pc = "awaitCreate"
    /\ turn' = [Sse(turn, ToolCallEvent(blocks[1])) EXCEPT
                   !.pc = "awaitExec", !.blocks = blocks, !.idx = 1,
                   !.results = <<>>]
    /\ events' = Append(events, ToolCallEvent(blocks[1]))
    /\ hist' = [hist EXCEPT !.toolRounds = @ + 1, !.nExec = @ + 1]
    /\ UNCHANGED messages
    /\ UNCHANGED <<cacheVars, pureVars, appVars>>

\* Mutant of RoundRecord: the assistant's invocation record is left out.
RoundRecordResultsOnly(blocks, rs) ==
    <<[role |-> "user", kind |-> "tool_result", items |-> rs]>>

\* What a closed tool round appends to the working list:
\* `{ role: 'assistant', content: response.content }, { role: 'user',
\* content: toolResults }`; for Gemini the chat session records the model's
\* function calls and the `responses` sent next.
RoundRecord(blocks, rs) ==
    <<[role |-> "assistant", kind |-> "tool_use",
       items |-> [i \in 1 .. Len(blocks) |->
                     [call |-> blocks[i], result |-> NoResult]]],
      [role |-> "user", kind |-> "tool_result", items |-> rs]>>

\* The executor call of the current invocation settles; chain is what
\* getFilteredChain did inside it.  Then the next invocation is announced and
\* executed, or the round is closed: the invocation record and the results
\* are appended and the loop goes to its next iteration.
ExecutorSettles(chain) ==
    /\ turn.pc = "awaitExec"
    /\ ReachesChain(turn.blocks[turn.idx].name, turn.blocks[turn.idx].ticker)
          \/ chain = NoChain
    /\ LET b      == turn.blocks[turn.idx]
           result == ToolExecutor(b.name, b.ticker, chain)
           h1     == [hist EXCEPT !.lastExec =
                         [call |-> b, chain |-> chain, result |-> result]]
           rs     == Append(turn.results, [call |-> b, result |-> result])
       IN  IF result = Thrown
           THEN \* the rejection leaves streamChat; chat.ts finds the headers sent
                /\ turn' = [turn EXCEPT !.pc = "failed"]
                /\ hist' = h1
                /\ UNCHANGED <<events, messages>>
           ELSE IF turn.idx < Len(turn.blocks)
           THEN /\ turn' = [turn EXCEPT !.idx = @ + 1, !.results = rs]
                /\ events' = Append(events, ToolCallEvent(turn.blocks[turn.idx + 1]))
                /\ hist' = [h1 EXCEPT !.nExec = @ + 1]
                /\ UNCHANGED messages
           ELSE LET msgs == messages \o RoundRecord(turn.blocks, rs)
                    t1   == [turn EXCEPT !.round = @ + 1, !.results = rs]
                    nxt  == LoopTop(t1, h1, msgs)
                IN  /\ messages' = msgs
                    /\ turn' = nxt[1]
                    /\ hist' = nxt[2]
                    /\ events' = IF nxt[3] THEN Append(events, DoneEvent)
                                 ELSE events
    /\ UNCHANGED <<cacheVars, pureVars, appVars>>

\* `await anthropicClient.messages.stream(...)` / `chat.sendMessageStream`
StreamOpens ==
    /\ turn.pc = "awaitStream"
    /\ turn' = [turn EXCEPT !.pc = "streaming"]
    /\ UNCHANGED <<events, messages, hist>>
    /\ UNCHANGED <<cacheVars, pureVars, appVars>>

\* Whether a chunk of the final stream is forwarded: Anthropic forwards every
\* text delta, Gemini every chunk with a non-empty text().
Forwarded(provider, chunk) ==
    IF provider = "anthropic" THEN chunk.isText ELSE chunk.text # ""

\* one chunk of the final stream arrives
StreamChunk(chunk) ==
    /\ turn.pc = "streaming"
    /\ turn.chunks < MaxChunks
    /\ IF Forwarded(turn.provider, chunk)
       THEN /\ turn' = [Sse(turn, TextEvent(chunk.text)) EXCEPT !.chunks = @ + 1]
            /\ events' = Append(events, TextEvent(chunk.text))
            /\ hist' = [hist EXCEPT !.streamed = Append(@, chunk.text)]
       ELSE /\ turn' = [turn EXCEPT !.chunks = @ + 1]
            /\ UNCHANGED <<events, hist>>
    /\ UNCHANGED messages
    /\ UNCHANGED <<cacheVars, pureVars, appVars>>

\* the final stream is exhausted: [DONE] and res.end()
StreamEnds ==
    /\ turn.pc = "streaming"
    /\ turn' = EndOfTurn(turn)
    /\ events' = Append(events, DoneEvent)
    /\ UNCHANGED <<messages, hist>>
    /\ UNCHANGED <<cacheVars, pureVars, appVars>>

\* A provider request rejects (tool round, stream creation or mid-stream).
\* The catch of chatRouter.post answers 500 only if no header was sent.
ProviderFails ==
    /\ turn.pc \in {"awaitCreate", "awaitStream", "streaming"}
    /\ turn' = [turn EXCEPT !.pc = "failed",
                            !.res = IF turn.headersSent THEN @ ELSE "error500",
                            !.headersSent = TRUE]
    /\ hist' = [hist EXCEPT !.providerFailed = TRUE]
    /\ UNCHANGED <<events, messages>>
    /\ UNCHANGED <<cacheVars, pureVars, appVars>>

TurnNext ==
    \/ StartTurn
    \/ \E text \in {"", "a"} : NoToolResponse(text)
    \/ \E blocks \in ToolResponses : ToolUseResponse(blocks)
    \/ \E chain \in ChainOutcomes : ExecutorSettles(chain)
    \/ StreamOpens
    \/ \E chunk \in StreamChunks : StreamChunk(chunk)
    \/ StreamEnds
    \/ ProviderFails

(***************************************************************************)
(*          SYMBOL ENCODING (routes/holdings.ts, POST /watch-option)       *)
(* A strike handed to the route is carried in ten-thousandths of a dollar, *)
(* so that Math.round(strike * 1000) has something to round.               *)
(***************************************************************************)

LowerCase ==
    <<"a", "b", "c", "d", "e", "f", "g", "h", "i", "j", "k", "l", "m",
      "n", "o", "p", "q", "r", "s", "t", "u", "v", "w", "x", "y", "z">>

UpperOf ==
    <<"A", "B", "C", "D", "E", "F", "G", "H", "I", "J", "K", "L", "M",
      "N", "O", "P", "Q", "R", "S", "T", "U", "V", "W", "X", "Y", "Z">>

\* String.prototype.toUpperCase, character by character
ToUpperCase(str) ==
    [i \in 1 .. Len(str) |->
        IF \E k \in 1 .. 26 : LowerCase[k] = str[i]
        THEN UpperOf[CHOOSE k \in 1 .. 26 : LowerCase[k] = str[i]]
        ELSE str[i]]

RECURSIVE SplitDash(_)
\* String.prototype.split('-')
SplitDash(str) ==
    IF \A i \in 1 .. Len(str) : str[i] # "-" THEN <<str>>
    ELSE LET k == CHOOSE i \in 1 .. Len(str) :
                     str[i] = "-" /\ \A j \in 1 .. i - 1 : str[j] # "-"
         IN  <<SubSeq(str, 1, k - 1)>> \o SplitDash(SubSeq(str, k + 1, Len(str)))

\* `Math.round(strike * 1000)` of a non-negative strike in ten-thousandths
RoundToThousandths(strike10) == (strike10 + 5) \div 10

\* The OCC key of the route:
\*   const [yyyy, mm, dd] = expiration.split('-'); const yy = yyyy.slice(2);
\*   const cp = type.toLowerCase() === 'call' ? 'C' : 'P';
\*   `${ticker.toUpperCase()}${yy}${mm}${dd}${cp}${strikeStr}`
EncodeOCC(ticker, type, strike10, expiration) ==
    LET parts == SplitDash(expiration)
        yy    == SubSeq(parts[1], 3, Len(parts[1]))
        cp    == IF type = "call" THEN "C" ELSE "P"
    IN  ToUpperCase(ticker) \o yy \o parts[2] \o parts[3] \o <<cp>>
           \o StrikeField(RoundToThousandths(strike10))

\* the tickers, kinds, strikes and expirations a key is built from
CodecTickers ==
    {<<"X", "Y", "Z">>, <<"A">>, <<"x", "y">>, <<"B", ".", "B">>}

CodecKinds == {"call", "put"}

\* 0.001, 100, 100.0004, 100.0007, 110.5, 99999.999 and 100000 dollars
CodecStrikes ==
    {10, 1000000, 1000004, 1000007, 1105000, 999999990, 1000000000}

CodecExpirations ==
    {<<"2", "0", "2", "6", "-", "1", "2", "-", "0", "2">>,
     <<"2", "0", "0", "0", "-", "0", "1", "-", "0", "1">>,
     <<"2", "0", "9", "9", "-", "1", "2", "-", "3", "1">>,
     <<"1", "9", "9", "9", "-", "1", "2", "-", "3", "1">>}

NoCodec ==
    [pc |-> "idle", ticker |-> <<>>, type |-> "", strike10 |-> 0,
     expiration |-> <<>>, occKey |-> <<>>, parsed |-> NoParse]

\* no key is being built (the state of the codec outside SpecCodec)
CodecIdle == codec = NoCodec

\* the route is called with a contract
CodecInit ==
    \E tk \in CodecTickers, ty \in CodecKinds, st \in CodecStrikes,
       ex \in CodecExpirations :
        codec = [NoCodec EXCEPT !.pc = "called", !.ticker = tk, !.type = ty,
                                !.strike10 = st, !.expiration = ex]

\* the route builds the key
Encode ==
    /\ codec.pc = "called"
    /\ codec' = [codec EXCEPT !.pc = "encoded",
           !.occKey = EncodeOCC(codec.ticker, codec.type, codec.strike10,
                                codec.expiration)]
    /\ UNCHANGED <<cacheVars, turnVars, query, scan, ext, appVars>>

\* the key comes back in a chain and is decoded
Decode ==
    /\ codec.pc = "encoded"
    /\ codec' = [codec EXCEPT !.pc = "decoded",
                                !.parsed = ParseOCC(codec.occKey)]
    /\ UNCHANGED <<cacheVars, turnVars, query, scan, ext, appVars>>

CodecNext == Encode \/ Decode

(***************************************************************************)
(*      CHAIN CONSUMERS (services/cboe.ts getOptionMid and calcIV30)       *)
(***************************************************************************)

\* String.prototype.toLowerCase of the kinds a caller passes
KindToLowerCase(type) ==
    IF type = "CALL" THEN "call" ELSE IF type = "PUT" THEN "put" ELSE type

\* no contract found / the fetch failed: getOptionMid returns null
NoMid == [found |-> FALSE, bid |-> 0, ask |-> 0, mid |-> 0, iv |-> 0]

\* whether the find callback of getOptionMid accepts o; the strike asked for
\* is in ten-thousandths, so `Math.abs(p.strike - strike) < 0.005` is < 50
MidMatches(o, norm, strike10, expiry) ==
    LET p == ParseOCC(o.option)
    IN  /\ p.ok
        /\ p.expiry = expiry
        /\ p.type = norm
        /\ Abs(10 * p.strike - strike10) < 50

\* Mutant of FindFirst: the last of the passing indices is taken.
FindLast(hits) ==
    IF hits = {} THEN 0 ELSE CHOOSE i \in hits : \A j \in hits : j <= i

\* Array.prototype.find, given the indices of the elements that pass the
\* callback: the first of them, or 0 when there is none
FindFirst(hits) ==
    IF hits = {} THEN 0 ELSE CHOOSE i \in hits : \A j \in hits : i <= j

\* getOptionMid(ticker, type, strike, expiry); fetch is what fetchChain did.
\* Everything runs inside try { } catch { return null }.  The mid
\* (bid + ask) / 2 is carried in half cents.
GetOptionMid(fetch, type, strike10, expiry) ==
    IF fetch.threw THEN NoMid
    ELSE LET norm == KindToLowerCase(type)
             k == FindFirst({i \in DOMAIN fetch.options :
                     MidMatches(fetch.options[i], norm, strike10, expiry)})
         IN  IF k = 0 THEN NoMid
             ELSE [found |-> TRUE, bid |-> fetch.options[k].bid,
                   ask |-> fetch.options[k].ask,
                   mid |-> fetch.options[k].bid + fetch.options[k].ask,
                   iv |-> fetch.options[k].iv]

(***************************************************************************)
(* calcIV30.  An iv is an integer number of thousandths.  A days-to-expiry *)
(* is carried in half days, the iv of a term-structure point doubled (the  *)
(* average of one or two ivs), and the estimate as a fraction num / den.   *)
(***************************************************************************)

\* `if (!p || opt.iv <= 0) continue`
HasIV(opt) == ParseOCC(opt.option).ok /\ ~(opt.iv <= 0)

\* byExpiry: the keys of the Map in insertion order, i.e. the expiries of
\* the usable options in order of first appearance
ExpiriesOf(options) ==
    LET usable == SelectSeq(options, HasIV)
        firsts == SelectSeq([i \in 1 .. Len(usable) |-> i],
                     LAMBDA i : \A j \in 1 .. i - 1 :
                        ParseOCC(usable[j].option).expiry
                           # ParseOCC(usable[i].option).expiry)
    IN  [k \in 1 .. Len(firsts) |-> ParseOCC(usable[firsts[k]].option).expiry]

\* the bucket of an expiry: its dte and its calls and puts in chain order
BucketOf(options, expiry, nowHalf) ==
    LET mine(ty) == SelectSeq(options,
                       LAMBDA o : /\ HasIV(o)
                                  /\ ParseOCC(o.option).expiry = expiry
                                  /\ ParseOCC(o.option).type = ty)
    IN  [dte |-> ExpiryNoon(expiry) - nowHalf,
         calls |-> mine("call"), puts |-> mine("put")]

RECURSIVE AtmFold(_, _, _, _)
\* opts.reduce(..., null) of atmOf from element k on; best = 0 stands for null
AtmFold(opts, k, best, price) ==
    IF k > Len(opts) THEN best
    ELSE LET p == ParseOCC(opts[k].option)
         IN  IF ~p.ok \/ opts[k].iv <= 0 THEN AtmFold(opts, k + 1, best, price)
             ELSE IF best = 0 THEN AtmFold(opts, k + 1, k, price)
             ELSE IF Abs(p.strike - price)
                        < Abs(ParseOCC(opts[best].option).strike - price)
                  THEN AtmFold(opts, k + 1, k, price)
                  ELSE AtmFold(opts, k + 1, best, price)

\* atmOf(opts)?.iv, as a sequence of zero or one iv
AtmIV(opts, price) ==
    LET k == AtmFold(opts, 1, 0, price)
    IN  IF k = 0 THEN <<>> ELSE <<opts[k].iv>>

\* the ivs of a bucket: `[atmOf(calls)?.iv, atmOf(puts)?.iv].filter(v > 0)`
BucketIVs(bucket, price) ==
    SelectSeq(AtmIV(bucket.calls, price) \o AtmIV(bucket.puts, price),
              LAMBDA v : v > 0)

\* Mutant of PinRisk: no expiry is too near.
PinRiskNever(bucket) == FALSE

\* `if (bucket.dte < 5) continue`: the expiry is less than 5 days away
PinRisk(bucket) == bucket.dte < 10

\* termStructure before the sort: one point per bucket with dte >= 5 and at
\* least one iv; iv is twice the average
TermStructure(options, price, nowHalf) ==
    LET exps    == ExpiriesOf(options)
        buckets == [k \in 1 .. Len(exps) |-> BucketOf(options, exps[k], nowHalf)]
        kept    == SelectSeq(buckets,
                      LAMBDA b : ~PinRisk(b) /\ Len(BucketIVs(b, price)) # 0)
    IN  [k \in 1 .. Len(kept) |->
            LET ivs == BucketIVs(kept[k], price)
            IN  [dte |-> kept[k].dte,
                 iv  |-> IF Len(ivs) = 1 THEN 2 * ivs[1] ELSE ivs[1] + ivs[2]]]

\* termStructure.sort((a, b) => a.dte - b.dte)
SortByDte(ts) ==
    LET rank == [i \in 1 .. Len(ts) |->
                    Cardinality({j \in 1 .. Len(ts) :
                        ts[j].dte < ts[i].dte
                           \/ (ts[j].dte = ts[i].dte /\ j < i)})]
    IN  [k \in 1 .. Len(ts) |-> ts[CHOOSE i \in 1 .. Len(ts) : rank[i] = k - 1]]

\* calcIV30 returns null
NoIV == [ok |-> FALSE, num |-> 0, den |-> 1]

\* an iv of the term structure returned as it is
FlatIV(point) == [ok |-> TRUE, num |-> point.iv, den |-> 2]

\* Mutant of Interpolate: the slope is taken at the upper point's dte.
InterpolateAtUpper(t1, t2) ==
    [ok  |-> TRUE,
     num |-> t1.iv * (t2.dte - t1.dte) + (t2.dte - 60) * (t2.iv - t1.iv),
     den |-> 2 * (t2.dte - t1.dte)]

\* `t1.iv + ((TARGET - t1.dte) / (t2.dte - t1.dte)) * (t2.iv - t1.iv)`
Interpolate(t1, t2) ==
    [ok  |-> TRUE,
     num |-> t1.iv * (t2.dte - t1.dte) + (60 - t1.dte) * (t2.iv - t1.iv),
     den |-> 2 * (t2.dte - t1.dte)]

\* Mutant of OneSided: the far end of the side is returned.
OneSidedFarEnd(below, above) ==
    IF Len(below) = 0 THEN above[Len(above)] ELSE below[1]

\* `if (below.length === 0) return above[0].iv;
\*  if (above.length === 0) return below[below.length - 1].iv`
OneSided(below, above) ==
    IF Len(below) = 0 THEN above[1] ELSE below[Len(below)]

\* calcIV30(options, underlyingPrice) at a time of day
CalcIV30(options, price, nowHalf) ==
    LET ts    == SortByDte(TermStructure(options, price, nowHalf))
        exact == FindFirst({i \in DOMAIN ts : Abs(ts[i].dte - 60) < 2})
        below == SelectSeq(ts, LAMBDA t : t.dte < 60)
        above == SelectSeq(ts, LAMBDA t : t.dte > 60)
    IN  IF Len(ts) = 0 THEN NoIV
        ELSE IF exact # 0 THEN FlatIV(ts[exact])
        ELSE IF Len(below) = 0 \/ Len(above) = 0
             THEN FlatIV(OneSided(below, above))
        ELSE Interpolate(below[Len(below)], above[1])

(***************************************************************************)
(* The chains handed to the consumers.  Times and expiries are those of    *)
(* the chain query: now is 2026-11-02 at 00:00Z or 12:00Z.                 *)
(***************************************************************************)

\* further expiries: 2026-11-06, 2026-11-12 and 2026-12-12
Exp1106 == <<"2", "6", "1", "1", "0", "6">>

Exp1112 == <<"2", "6", "1", "1", "1", "2">>

Exp1212 == <<"2", "6", "1", "2", "1", "2">>

\* the YYYY-MM-DD date of a yymmdd field
IsoDate(yymmdd) ==
    <<"2", "0">> \o SubSeq(yymmdd, 1, 2) \o <<"-">> \o SubSeq(yymmdd, 3, 4)
       \o <<"-">> \o SubSeq(yymmdd, 5, 6)

\* the ways a symbol of the upstream chain may be malformed
Defects ==
    {"short", "long", "dateNonDigit", "strikeNonDigit", "kind",
     "emptyTicker", "lowerTicker"}

\* a well-formed XYZ symbol with one defect
Corrupt(sym, defect) ==
    CASE defect = "short"          -> SubSeq(sym, 1, Len(sym) - 1)
      [] defect = "long"           -> Append(sym, "0")
      [] defect = "dateNonDigit"   -> [sym EXCEPT ![5] = "/"]
      [] defect = "strikeNonDigit" -> [sym EXCEPT ![Len(sym)] = "."]
      [] defect = "kind"           -> [sym EXCEPT ![10] = "X"]
      [] defect = "emptyTicker"    -> SubSeq(sym, 4, Len(sym))
      [] defect = "lowerTicker"    -> [sym EXCEPT ![1] = "x"]

\* a record of the upstream chain; defect is "none" for a well-formed symbol
RawOption(sym, bid, ask, iv, defect) ==
    [option |-> sym, bid |-> bid, ask |-> ask, iv |-> iv, defect |-> defect]

\* The records of the chains read by every consumer: a call and a put of
\* one expiry, a later expiry, a second quote of the first contract that has
\* no market and no iv, a strike 0.004 off, a contract 4 days out, and
\* malformed records.
ScanBook ==
    {RawOption(XyzSymbol(Exp1122, "C", 100000), 200, 400, 300, "none"),
     RawOption(XyzSymbol(Exp1122, "P", 100000), 100, 120, 340, "none"),
     RawOption(XyzSymbol(Exp1212, "C", 100000), 300, 500, 400, "none"),
     RawOption(XyzSymbol(Exp1122, "C", 100000), 0, 0, 0, "none"),
     RawOption(XyzSymbol(Exp1122, "C", 100004), 210, 410, 310, "none"),
     RawOption(XyzSymbol(Exp1106, "C", 100000), 40, 60, 900, "none")}
    \cup {RawOption(Corrupt(XyzSymbol(Exp1122, "C", 100000), df),
                    220, 420, 320, df) : df \in {"kind", "short", "lowerTicker"}}

\* chains of up to MaxScan records of the book
MaxScan == 3

ScanChains == UNION {[1 .. n -> ScanBook] : n \in 0 .. MaxScan}

\* The records of the chains given to calcIV30 alone: contracts 4, 10, 20,
\* 30 and 40 days out, a call and a put of one expiry, two strikes of
\* another, and a contract without iv.
TermBook ==
    {RawOption(XyzSymbol(Exp1122, "C", 100000), 200, 400, 300, "none"),
     RawOption(XyzSymbol(Exp1122, "P", 100000), 100, 120, 340, "none"),
     RawOption(XyzSymbol(Exp1212, "C", 100000), 300, 500, 400, "none"),
     RawOption(XyzSymbol(Exp1212, "C", 110000), 150, 170, 500, "none"),
     RawOption(XyzSymbol(Exp1112, "C", 100000), 90, 110, 200, "none"),
     RawOption(XyzSymbol(Exp1202, "C", 100000), 250, 270, 360, "none"),
     RawOption(XyzSymbol(Exp1106, "C", 100000), 40, 60, 900, "none"),
     RawOption(XyzSymbol(Exp1212, "P", 100000), 0, 0, 0, "none")}

\* chains of up to MaxTerm records of the term book
MaxTerm == 3

TermChains == UNION {[1 .. n -> TermBook] : n \in 0 .. MaxTerm}

\* the contracts getOptionMid is asked for: kind, strike in ten-thousandths
\* (100, 100.0049, 100.006), expiry
ScanKeys ==
    {[type |-> "call", strike10 |-> 1000000, expiry |-> IsoDate(Exp1122)],
     [type |-> "CALL", strike10 |-> 1000049, expiry |-> IsoDate(Exp1122)],
     [type |-> "call", strike10 |-> 1000060, expiry |-> IsoDate(Exp1122)],
     [type |-> "put", strike10 |-> 1000000, expiry |-> IsoDate(Exp1122)],
     [type |-> "call", strike10 |-> 1000000, expiry |-> IsoDate(Exp1212)]}

NoKey == [type |-> "", strike10 |-> 0, expiry |-> <<>>]

\* the underlying prices calcIV30 is given: 100 and 110
ScanPrices == {100000, 110000}

\* the filter of the query run over the chain: every field left out
ScanFilter ==
    [type |-> Undef, dteMin |-> Undef, dteMax |-> Undef, otmOnly |-> Undef,
     underlyingPrice |-> Undef, maxResults |-> Undef]

NoScan ==
    [pc |-> "idle", chain |-> <<>>, key |-> NoKey, price |-> 0,
     nowHalf |-> 0, mid |-> NoMid, iv |-> NoIV, out |-> <<>>]

\* no chain is being read (the state of the consumers outside SpecScan)
ScanIdle == scan = NoScan

\* upstream serves some chain
ScanInit ==
    \E ch \in ScanChains : scan = [NoScan EXCEPT !.pc = "ready", !.chain = ch]

\* upstream serves some chain of dated contracts
TermInit ==
    \E ch \in TermChains : scan = [NoScan EXCEPT !.pc = "ready", !.chain = ch]

\* getOptionMid is called for a contract and fetchChain resolves
ScanGetMid(key) ==
    /\ scan.pc = "ready"
    /\ scan' = [scan EXCEPT !.pc = "mid", !.key = key,
           !.mid = GetOptionMid([threw |-> FALSE, options |-> scan.chain],
                                key.type, key.strike10, key.expiry)]
    /\ UNCHANGED <<cacheVars, turnVars, query, codec, ext, appVars>>

\* getOptionMid is called for a contract and fetchChain throws
ScanGetMidFetchFails(key) ==
    /\ scan.pc = "ready"
    /\ scan' = [scan EXCEPT !.pc = "midFetchFailed", !.key = key,
           !.mid = GetOptionMid([threw |-> TRUE, options |-> <<>>],
                                key.type, key.strike10, key.expiry)]
    /\ UNCHANGED <<cacheVars, turnVars, query, codec, ext, appVars>>

\* calcIV30 is called on the chain
ScanCalcIV30(price, t) ==
    /\ scan.pc = "ready"
    /\ scan' = [scan EXCEPT !.pc = "iv", !.price = price, !.nowHalf = t,
                            !.iv = CalcIV30(scan.chain, price, t)]
    /\ UNCHANGED <<cacheVars, turnVars, query, codec, ext, appVars>>

\* getFilteredChain runs over the chain
ScanQuery(t) ==
    /\ scan.pc = "ready"
    /\ scan' = [scan EXCEPT !.pc = "query", !.nowHalf = t,
                            !.out = GetFilteredChain(scan.chain, ScanFilter, t)]
    /\ UNCHANGED <<cacheVars, turnVars, query, codec, ext, appVars>>

ScanNext ==
    \/ \E key \in ScanKeys : ScanGetMid(key)
    \/ \E key \in ScanKeys : ScanGetMidFetchFails(key)
    \/ \E price \in ScanPrices, t \in QueryTimes : ScanCalcIV30(price, t)
    \/ \E t \in QueryTimes : ScanQuery(t)

TermNext == \E price \in ScanPrices, t \in QueryTimes : ScanCalcIV30(price, t)

(***************************************************************************)
(*     MUTATION PROTOCOL PARSER (client extractFileUpdate)                 *)
(* A response text is a sequence of tokens: a character of prose, a        *)
(* whitespace character, one of the two delimiters, or a JSON document     *)
(* naming a file.                                                          *)
(***************************************************************************)

Prose == "a"

Space == " "

OpenDelim == "<<<FILE_UPDATE>>>"

CloseDelim == "<<<END_FILE_UPDATE>>>"

\* `{"file": "holdings", "content": {...}}` and
\* `{"file": "strategy", "content": "..."}`
HoldingsJson == "{file:holdings}"

StrategyJson == "{file:strategy}"

\* JSON documents of another shape than a FileUpdate: a number, a list, an
\* object naming another file, an object without `file`
NumberJson == "7"

ListJson == "[1]"

OtherFileJson == "{file:persona}"

NoFileJson == "{content:x}"

\* String(undefined)
UndefinedText == "undefined"

\* the tokens of the texts handed to the parser on its own
Tokens == {Prose, Space, OpenDelim, CloseDelim, HoldingsJson, StrategyJson}

\* response texts of up to MaxText tokens
MaxText == 6

Texts == UNION {[1 .. n -> Tokens] : n \in 0 .. MaxText}

\* FILE_UPDATE_RE.exec(text): the first opening delimiter and the first
\* closing delimiter behind it (the group is lazy), or no match
NoMatch == [found |-> FALSE, open |-> 0, close |-> 0]

RegexExec(text) ==
    LET opens == {i \in DOMAIN text :
                     /\ text[i] = OpenDelim
                     /\ \E j \in DOMAIN text : j > i /\ text[j] = CloseDelim}
    IN  IF opens = {} THEN NoMatch
        ELSE LET i == CHOOSE x \in opens : \A y \in opens : x <= y
                 closes == {j \in DOMAIN text : j > i /\ text[j] = CloseDelim}
             IN  [found |-> TRUE, open |-> i,
                  close |-> CHOOSE x \in closes : \A y \in closes : x <= y]

\* Mutant of Trim: only leading whitespace is removed.
TrimStart(text) ==
    LET solid == {i \in DOMAIN text : text[i] # Space}
    IN  IF solid = {} THEN <<>>
        ELSE SubSeq(text, CHOOSE i \in solid : \A j \in solid : i <= j,
                    Len(text))

\* String.prototype.trim
Trim(text) ==
    LET solid == {i \in DOMAIN text : text[i] # Space}
    IN  IF solid = {} THEN <<>>
        ELSE SubSeq(text, CHOOSE i \in solid : \A j \in solid : i <= j,
                          CHOOSE i \in solid : \A j \in solid : j <= i)

\* no update: `update: null`.  An update is carried as its truthiness and
\* its `file` property.
NoUpdate == [has |-> FALSE, file |-> ""]

\* JSON.parse of the trimmed payload: a document, or a SyntaxError
JsonParse(payload) ==
    IF payload = <<HoldingsJson>>
    THEN [threw |-> FALSE, update |-> [has |-> TRUE, file |-> "holdings"]]
    ELSE IF payload = <<StrategyJson>>
    THEN [threw |-> FALSE, update |-> [has |-> TRUE, file |-> "strategy"]]
    ELSE IF payload = <<OtherFileJson>>
    THEN [threw |-> FALSE, update |-> [has |-> TRUE, file |-> "persona"]]
    ELSE IF payload \in {<<NumberJson>>, <<ListJson>>, <<NoFileJson>>}
    THEN [threw |-> FALSE, update |-> [has |-> TRUE, file |-> UndefinedText]]
    ELSE [threw |-> TRUE, update |-> NoUpdate]

\* Mutant of NoMatchResult: the text is trimmed.
NoMatchResultTrimmed(text) == [clean |-> Trim(text), update |-> NoUpdate]

\* `if (!match) return { clean: text, update: null }`
NoMatchResult(text) == [clean |-> text, update |-> NoUpdate]

\* text.replace(FILE_UPDATE_RE, ''): the first match is cut out
ReplaceMatch(text, m) ==
    SubSeq(text, 1, m.open - 1) \o SubSeq(text, m.close + 1, Len(text))

\* Mutant of ParseFailureResult: the block that did not parse is cut out.
ParseFailureResultStripped(text) ==
    [clean |-> Trim(ReplaceMatch(text, RegexExec(text))), update |-> NoUpdate]

\* `catch { return { clean: text, update: null } }`
ParseFailureResult(text) == [clean |-> text, update |-> NoUpdate]

\* extractFileUpdate(text)
ExtractFileUpdate(text) ==
    LET m == RegexExec(text)
    IN  IF ~m.found THEN NoMatchResult(text)
        ELSE LET parsed == JsonParse(
                               Trim(SubSeq(text, m.open + 1, m.close - 1)))
             IN  IF parsed.threw THEN ParseFailureResult(text)
                 ELSE [clean  |-> Trim(ReplaceMatch(text, m)),
                       update |-> parsed.update]

NoExt == [pc |-> "idle", text |-> <<>>, clean |-> <<>>, update |-> NoUpdate]

\* no response is being parsed (the state of the parser outside SpecExt)
ExtIdle == ext = NoExt

\* the stream of a turn has ended with some full text
ExtInit == \E text \in Texts : ext = [NoExt EXCEPT !.pc = "streamed", !.text = text]

\* `const { clean, update } = extractFileUpdate(fullText)`
Extract ==
    /\ ext.pc = "streamed"
    /\ LET r == ExtractFileUpdate(ext.text)
       IN  ext' = [ext EXCEPT !.pc = "extracted", !.clean = r.clean,
                              !.update = r.update]
    /\ UNCHANGED <<cacheVars, turnVars, query, codec, scan, appVars>>

ExtNext == Extract

(***************************************************************************)
(*              CHAT CLIENT (client/src/components/Chat.tsx)               *)
(* The Chat component: its state hooks, sendMessage with the reader loop   *)
(* of the event stream, and the approve / reject handlers of a pending     *)
(* file update.  A text is a sequence of tokens as in the parser above.    *)
(* User events are delivered to the handlers in every state: the disabled  *)
(* attributes of the controls and the early return of the render under     *)
(* 'none' only remove events, so the handlers' own guards are what is      *)
(* modelled.                                                               *)
(***************************************************************************)

\* chat requests of one session
MaxSends == 1

\* save requests of one session
MaxPuts == 2

\* type AIProvider = 'anthropic' | 'gemini' | 'none'
AIProviders == Providers \cup {"none"}

\* what the user may have typed
Inputs == {<<>>, <<Space>>, <<Prose>>}

\* the full texts of the replies of the chat endpoint
ReplyBodies ==
    {<<Prose>>,
     <<Prose, OpenDelim, HoldingsJson, CloseDelim>>,
     <<OpenDelim, StrategyJson, CloseDelim, Prose>>,
     <<OpenDelim, OtherFileJson, CloseDelim>>,
     <<OpenDelim, NumberJson, CloseDelim>>,
     <<Prose, OpenDelim, ListJson, CloseDelim>>,
     <<OpenDelim, NoFileJson, CloseDelim>>}

\* The events on the wire, as sse() and the end marker write them:
\* `data: {"text": ...}`, `data: {"tool_call": ...}`, `data: [DONE]`
WireText(text) == [kind |-> "text", text |-> text]

WireToolCall == [kind |-> "tool_call", text |-> <<>>]

WireDone == [kind |-> "done", text |-> <<>>]

\* The event sequences of a turn: tool-invocation events, the reply in one
\* or two partial-text events, the end marker.
WireStreams ==
    {tcs \o parts \o <<WireDone>> :
        tcs \in {<<>>, <<WireToolCall>>},
        parts \in UNION {
            {<<WireText(body)>>} \cup
            {<<WireText(SubSeq(body, 1, k)), WireText(SubSeq(body, k + 1, Len(body)))>> :
                k \in {j \in {2} : j < Len(body)}}
            : body \in ReplyBodies}}

\* `parsed.text` of `JSON.parse(data) as { text: string }`: the text of a
\* partial-text event; an event without the property gives undefined, which
\* `fullText += parsed.text` appends as a string
ParsedText(ev) == IF ev.kind = "text" THEN ev.text ELSE <<UndefinedText>>

\* The `for (const line of lines)` loop over the lines of one read:
\* `[DONE]` breaks out of it, every other event is appended.
RECURSIVE ConsumeLines(_, _)
ConsumeLines(fullText, lines) ==
    IF lines = <<>> \/ Head(lines).kind = "done" THEN fullText
    ELSE ConsumeLines(fullText \o ParsedText(Head(lines)), Tail(lines))

\* the outcome of a sendMessage call and the state it was made in
NoSend == [outcome |-> "none", provider |-> "none", sendable |-> FALSE]

ChatState ==
    [pc |-> "idle", provider |-> "anthropic", input |-> <<>>,
     isStreaming |-> FALSE, pendingUpdate |-> NoUpdate, wire |-> <<>>,
     fullText |-> <<>>, content |-> <<>>,
     \* history: the outcome of the last sendMessage call, the providers the
     \* chat requests were sent with, the events read in this turn, the
     \* number of the extraction that set pendingUpdate, the save requests
     \* issued, the approve handlers awaiting their request
     last |-> NoSend, sent |-> <<>>, consumed |-> <<>>, pendingId |-> 0,
     extractions |-> 0, puts |-> <<>>, saving |-> 0, rejected |-> {}]

\* the chat client is not used (its state outside SpecChat)
ChatIdle == chat = ChatState

\* useState of App and Chat: any provider may be selected first
ChatInit == \E p \in AIProviders : chat = [ChatState EXCEPT !.provider = p]

\* onProviderChange={setProvider}
SelectProvider(p) ==
    /\ p # chat.provider
    /\ chat' = [chat EXCEPT !.provider = p]
    /\ UNCHANGED <<cacheVars, turnVars, pureVars, accts, store>>

\* onChange={(e) => setInput(e.target.value)}
TypeInput(text) ==
    /\ text # chat.input
    /\ chat' = [chat EXCEPT !.input = text]
    /\ UNCHANGED <<cacheVars, turnVars, pureVars, accts, store>>

\* Mutant of SendBlocked: the provider is not tested.
SendBlockedAnyProvider(c) == Trim(c.input) = <<>> \/ c.isStreaming

\* `if (!text || isStreaming || provider === 'none') return`
SendBlocked(c) ==
    Trim(c.input) = <<>> \/ c.isStreaming \/ c.provider = "none"

\* sendMessage up to its first await: the early return, or the messages are
\* extended, the input cleared and POST /api/chat issued
SendMessage(c) ==
    IF SendBlocked(c)
    THEN [c EXCEPT !.last = [outcome |-> "ignored", provider |-> c.provider,
                             sendable |-> Trim(c.input) # <<>> /\ ~c.isStreaming]]
    ELSE [c EXCEPT !.pc = "awaitResponse", !.input = <<>>,
                   !.isStreaming = TRUE, !.fullText = <<>>, !.content = <<>>,
                   !.consumed = <<>>,
                   !.last = [outcome |-> "sent", provider |-> c.provider,
                             sendable |-> TRUE],
                   !.sent = Append(@, c.provider)]

\* handleKeyDown: Enter without Shift
PressEnter ==
    /\ Len(chat.sent) < MaxSends
    /\ chat' = SendMessage(chat)
    /\ chat' # chat
    /\ UNCHANGED <<cacheVars, turnVars, pureVars, accts, store>>

\* onClick={sendMessage} of the Send button, `disabled={isStreaming ||
\* !input.trim()}`
ClickSend ==
    /\ Len(chat.sent) < MaxSends
    /\ ~(chat.isStreaming \/ Trim(chat.input) = <<>>)
    /\ chat' = SendMessage(chat)
    /\ UNCHANGED <<cacheVars, turnVars, pureVars, accts, store>>

\* `await fetch('/api/chat', ...)` resolves with an ok response whose body
\* will carry the events of the turn
ResponseOpens(stream) ==
    /\ chat.pc = "awaitResponse"
    /\ chat' = [chat EXCEPT !.pc = "reading", !.wire = stream]
    /\ UNCHANGED <<cacheVars, turnVars, pureVars, accts, store>>

\* `await reader.read()` resolves with the next k complete lines
ReadLines(k) ==
    /\ chat.pc = "reading"
    /\ k \in 1 .. Len(chat.wire)
    /\ LET lines == SubSeq(chat.wire, 1, k)
           text  == ConsumeLines(chat.fullText, lines)
       IN  chat' = [chat EXCEPT !.wire = SubSeq(@, k + 1, Len(@)),
                                !.fullText = text, !.content = text,
                                !.consumed = @ \o lines]
    /\ UNCHANGED <<cacheVars, turnVars, pureVars, accts, store>>

\* The reader reports done: extractFileUpdate(fullText), the clean text is
\* shown, `if (update) setPendingUpdate(update)`, and finally
\* setIsStreaming(false).
StreamDone ==
    /\ chat.pc = "reading"
    /\ chat.wire = <<>>
    /\ LET r == ExtractFileUpdate(chat.fullText)
       IN  chat' = [chat EXCEPT
                       !.pc = "idle", !.isStreaming = FALSE,
                       !.content = r.clean,
                       !.extractions = IF r.update.has THEN @ + 1 ELSE @,
                       !.pendingUpdate = IF r.update.has THEN r.update ELSE @,
                       !.pendingId = IF r.update.has
                                     THEN chat.extractions + 1 ELSE @]
    /\ UNCHANGED <<cacheVars, turnVars, pureVars, accts, store>>

\* The fetch rejects, the response is not ok, or a read rejects: the catch
\* shows the error message, and finally setIsStreaming(false).
ChatRequestFails ==
    /\ chat.pc \in {"awaitResponse", "reading"}
    /\ chat' = [chat EXCEPT !.pc = "idle", !.isStreaming = FALSE,
                            !.wire = <<>>, !.content = <<"Error">>]
    /\ UNCHANGED <<cacheVars, turnVars, pureVars, accts, store>>

\* the endpoint handleApprove writes to:
\* `pendingUpdate.file === 'holdings'` ? PUT /api/holdings : PUT /api/strategy
SaveEndpoint(update) ==
    IF update.file = "holdings" THEN "/api/holdings" ELSE "/api/strategy"

\* handleApprove up to its await: `if (!pendingUpdate) return`, then the PUT
ClickApprove ==
    /\ chat.pendingUpdate.has
    /\ Len(chat.puts) < MaxPuts
    /\ chat' = [chat EXCEPT
                   !.puts = Append(@, [id |-> chat.pendingId,
                                       endpoint |-> SaveEndpoint(chat.pendingUpdate),
                                       update |-> chat.pendingUpdate]),
                   !.saving = @ + 1]
    /\ UNCHANGED <<cacheVars, turnVars, pureVars, accts, store>>

\* the PUT of an approve settles (either way): the saved / failed message,
\* then setPendingUpdate(null)
ApproveSettles ==
    /\ chat.saving > 0
    /\ chat' = [chat EXCEPT !.saving = @ - 1, !.pendingUpdate = NoUpdate]
    /\ UNCHANGED <<cacheVars, turnVars, pureVars, accts, store>>

\* handleReject (the modal is rendered for a pending update only)
ClickReject ==
    /\ chat.pendingUpdate.has
    /\ chat' = [chat EXCEPT !.pendingUpdate = NoUpdate,
                            !.rejected = @ \cup {chat.pendingId}]
    /\ UNCHANGED <<cacheVars, turnVars, pureVars, accts, store>>

ChatNext ==
    \/ \E p \in AIProviders : SelectProvider(p)
    \/ \E text \in Inputs : TypeInput(text)
    \/ PressEnter
    \/ ClickSend
    \/ \E stream \in WireStreams : ResponseOpens(stream)
    \/ \E k \in 1 .. 2 : ReadLines(k)
    \/ StreamDone
    \/ ChatRequestFails
    \/ ClickApprove
    \/ ApproveSettles
    \/ ClickReject

(***************************************************************************)
(*      ACCOUNTS (server/services/accounts.ts, server/routes/accounts.ts)  *)
(* The accounts directory holds one file per account; the active id is     *)
(* kept in active-account.json.  One request is handled at a time.         *)
(***************************************************************************)

\* accounts created in one run
MaxCreated == 2

\* the ids randomUUID() hands out, in this order
Uuids == <<"u1", "u2", "u3">>

\* the ids a request may name; "" is a missing id
RequestIds == {"demo", "my-portfolio", "u1", "u2", "ghost", ""}

\* the names a request may carry; " " is blank
RequestNames == {"A", "B", " "}

\* active-account.json does not exist
NoActiveFile == "<none>"

\* `name.trim()`
TrimName(name) == IF name = " " THEN "" ELSE name

\* getActiveAccountId: the stored id, or 'demo' when the file cannot be read
GetActiveAccountId(a) == IF a.active = NoActiveFile THEN "demo" ELSE a.active

\* readAccount(id) resolves when the account file exists
AccountExists(a, id) == id \in DOMAIN a.names

NoAccounts ==
    [names |-> <<>>, active |-> NoActiveFile, created |-> 0,
     op |-> "none", status |-> 0]

\* the account routes are not used (their state outside SpecAccts)
AcctsIdle == accts = NoAccounts

\* After bootstrapAccounts: demo.json exists; on a first run with files to
\* migrate there is also my-portfolio, which is then the active account.
AcctsInit ==
    \/ accts = [NoAccounts EXCEPT !.names = [i \in {"demo"} |-> "Demo"]]
    \/ accts = [NoAccounts EXCEPT
                   !.names = [i \in {"demo", "my-portfolio"} |->
                                 IF i = "demo" THEN "Demo" ELSE "My Portfolio"],
                   !.active = "my-portfolio"]

\* PUT /api/accounts/active: 400 without an id; else the id is stored, then
\* the account is read: 200, or 500 when the read fails.
PutActive(id) ==
    /\ accts' =
          IF id = "" THEN [accts EXCEPT !.op = "switch", !.status = 400]
          ELSE [accts EXCEPT !.active = id, !.op = "switch",
                             !.status = IF AccountExists(accts, id)
                                        THEN 200 ELSE 500]
    /\ UNCHANGED <<cacheVars, turnVars, pureVars, chat, store>>

\* POST /api/accounts: 400 for a blank name; else createAccount writes the
\* file of a new id: 201.
PostAccount(name) ==
    /\ accts.created < MaxCreated
    /\ accts' =
          IF TrimName(name) = "" THEN [accts EXCEPT !.op = "create", !.status = 400]
          ELSE LET id == Uuids[accts.created + 1]
               IN  [accts EXCEPT
                      !.names = [i \in DOMAIN accts.names \cup {id} |->
                                    IF i = id THEN TrimName(name)
                                    ELSE accts.names[i]],
                      !.created = @ + 1, !.op = "create", !.status = 201]
    /\ UNCHANGED <<cacheVars, turnVars, pureVars, chat, store>>

\* PATCH /api/accounts/:id: 400 for a blank name, 500 when the account
\* cannot be read; else the name is replaced: 200.
PatchAccount(id, name) ==
    /\ id # ""
    /\ accts' =
          IF TrimName(name) = "" THEN [accts EXCEPT !.op = "rename", !.status = 400]
          ELSE IF ~AccountExists(accts, id)
          THEN [accts EXCEPT !.op = "rename", !.status = 500]
          ELSE [accts EXCEPT !.names[id] = TrimName(name),
                             !.op = "rename", !.status = 200]
    /\ UNCHANGED <<cacheVars, turnVars, pureVars, chat, store>>

\* deleteAccount: `if (id === 'demo') throw`
DeleteRefused(id) == id = "demo"

\* DELETE /api/accounts/:id: 403 for demo, 500 when unlink fails; else the
\* file is removed: 200.
DeleteAccount(id) ==
    /\ id # ""
    /\ accts' =
          IF DeleteRefused(id) THEN [accts EXCEPT !.op = "delete", !.status = 403]
          ELSE IF ~AccountExists(accts, id)
          THEN [accts EXCEPT !.op = "delete", !.status = 500]
          ELSE [accts EXCEPT
                   !.names = [i \in DOMAIN accts.names \ {id} |-> accts.names[i]],
                   !.op = "delete", !.status = 200]
    /\ UNCHANGED <<cacheVars, turnVars, pureVars, chat, store>>

AcctsNext ==
    \/ \E id \in RequestIds : PutActive(id)
    \/ \E name \in RequestNames : PostAccount(name)
    \/ \E id \in RequestIds, name \in RequestNames : PatchAccount(id, name)
    \/ \E id \in RequestIds : DeleteAccount(id)

(***************************************************************************)
(*    HOLDINGS ROUTES (server/routes/holdings.ts PUT / and /watch-option)  *)
(* Two requests on the active account overlap.  The holdings of the        *)
(* account file are carried as a body tag and the watched options, a       *)
(* function from OCC key to saved price (0 for null).                      *)
(***************************************************************************)

\* the two overlapping requests
Reqs == {1, 2}

\* the holdings in the account file before the requests
OldHoldings == [body |-> "old", options |-> [k \in {"K0"} |-> 0]]

\* the body of the holdings PUT
PutContent == [body |-> "new", options |-> [k \in {"K9"} |-> 0]]

\* The requests: the first watches contract K1, the second watches K2 or
\* replaces the holdings.
WatchRequest(key) == [kind |-> "watch", key |-> key]

PutRequest == [kind |-> "put", key |-> ""]

\* the saved prices getOptionMid may give: `mid?.mid ?? null`
SavedPrices == {0, 250}

IdleRequest ==
    [req |-> PutRequest, pc |-> "idle", saved |-> 0, snapshot |-> OldHoldings]

NoStore == [holdings |-> OldHoldings, reqs |-> [r \in Reqs |-> IdleRequest]]

\* the holdings routes are not used (their state outside SpecStore)
StoreIdle == store = NoStore

StoreInit ==
    \E second \in {WatchRequest("K2"), PutRequest} :
        store = [NoStore EXCEPT
                    !.reqs = [r \in Reqs |->
                        [IdleRequest EXCEPT
                            !.req = IF r = 1 THEN WatchRequest("K1") ELSE second,
                            !.pc = "arrived"]]]

\* `holdings.options[occKey] = { ..., saved_price: mid?.mid ?? null, ... }`
WithOption(h, key, saved) ==
    [h EXCEPT !.options = [k \in DOMAIN h.options \cup {key} |->
                              IF k = key THEN saved ELSE h.options[k]]]

\* what a request makes of the holdings it has read
Applied(r, h) ==
    IF r.req.kind = "watch" THEN WithOption(h, r.req.key, r.saved)
    ELSE PutContent

\* The handler runs up to its first await: watch-option validates, builds
\* the key and calls getOptionMid; the PUT calls getActiveAccountId.
RequestBegins(r) ==
    /\ store.reqs[r].pc = "arrived"
    /\ store' = [store EXCEPT !.reqs[r].pc =
                    IF store.reqs[r].req.kind = "watch"
                    THEN "awaitMid" ELSE "awaitActive"]
    /\ UNCHANGED <<cacheVars, turnVars, pureVars, chat, accts>>

\* `await getOptionMid(...)` resolves (it never rejects)
MidSettles(r, saved) ==
    /\ store.reqs[r].pc = "awaitMid"
    /\ store' = [store EXCEPT !.reqs[r].pc = "awaitActive",
                              !.reqs[r].saved = saved]
    /\ UNCHANGED <<cacheVars, turnVars, pureVars, chat, accts>>

\* `await getActiveAccountId()` resolves; readAccount(id) is called
ActiveIdRead(r) ==
    /\ store.reqs[r].pc = "awaitActive"
    /\ store' = [store EXCEPT !.reqs[r].pc = "awaitRead"]
    /\ UNCHANGED <<cacheVars, turnVars, pureVars, chat, accts>>

\* `await readAccount(id)` resolves with the file as it is now; the handler
\* changes its copy and calls writeAccount(account)
AccountRead(r) ==
    /\ store.reqs[r].pc = "awaitRead"
    /\ store' = [store EXCEPT !.reqs[r].pc = "awaitWrite",
                              !.reqs[r].snapshot = store.holdings]
    /\ UNCHANGED <<cacheVars, turnVars, pureVars, chat, accts>>

\* `await writeAccount(account)` resolves: the file holds the handler's
\* copy, and the request is answered with success
AccountWritten(r) ==
    /\ store.reqs[r].pc = "awaitWrite"
    /\ store' = [store EXCEPT
                    !.holdings = Applied(store.reqs[r], store.reqs[r].snapshot),
                    !.reqs[r].pc = "success"]
    /\ UNCHANGED <<cacheVars, turnVars, pureVars, chat, accts>>

StoreNext ==
    \/ \E r \in Reqs : RequestBegins(r)
    \/ \E r \in Reqs, saved \in SavedPrices : MidSettles(r, saved)
    \/ \E r \in Reqs : ActiveIdRead(r)
    \/ \E r \in Reqs : AccountRead(r)
    \/ \E r \in Reqs : AccountWritten(r)

(***************************************************************************)
(*                            SPECIFICATIONS                               *)
(***************************************************************************)

InitCache ==
    CacheInit /\ TurnIdle /\ QueryIdle /\ CodecIdle /\ ScanIdle /\ ExtIdle
    /\ ChatIdle /\ AcctsIdle /\ StoreIdle

SpecCache == InitCache /\ [][CacheNext]_vars

InitTurn ==
    TurnInit /\ CacheInit /\ QueryIdle /\ CodecIdle /\ ScanIdle /\ ExtIdle
    /\ ChatIdle /\ AcctsIdle /\ StoreIdle

SpecTurn == InitTurn /\ [][TurnNext]_vars

\* Every awaited provider request and executor call settles.
SpecTurnFair == SpecTurn /\ WF_vars(TurnNext)

InitQuery ==
    QueryInit /\ CacheInit /\ TurnIdle /\ CodecIdle /\ ScanIdle /\ ExtIdle
    /\ ChatIdle /\ AcctsIdle /\ StoreIdle

SpecQuery == InitQuery /\ [][QueryNext]_vars

InitCodec ==
    CodecInit /\ CacheInit /\ TurnIdle /\ QueryIdle /\ ScanIdle /\ ExtIdle
    /\ ChatIdle /\ AcctsIdle /\ StoreIdle

SpecCodec == InitCodec /\ [][CodecNext]_vars

InitScan ==
    ScanInit /\ CacheInit /\ TurnIdle /\ QueryIdle /\ CodecIdle /\ ExtIdle
    /\ ChatIdle /\ AcctsIdle /\ StoreIdle

SpecScan == InitScan /\ [][ScanNext]_vars

InitTerm ==
    TermInit /\ CacheInit /\ TurnIdle /\ QueryIdle /\ CodecIdle /\ ExtIdle
    /\ ChatIdle /\ AcctsIdle /\ StoreIdle

SpecTerm == InitTerm /\ [][TermNext]_vars

InitExt ==
    ExtInit /\ CacheInit /\ TurnIdle /\ QueryIdle /\ CodecIdle /\ ScanIdle
    /\ ChatIdle /\ AcctsIdle /\ StoreIdle

SpecExt == InitExt /\ [][ExtNext]_vars

InitChat ==
    ChatInit /\ CacheInit /\ TurnIdle /\ QueryIdle /\ CodecIdle /\ ScanIdle
    /\ ExtIdle /\ AcctsIdle /\ StoreIdle

SpecChat == InitChat /\ [][ChatNext]_vars

InitAccts ==
    AcctsInit /\ CacheInit /\ TurnIdle /\ QueryIdle /\ CodecIdle /\ ScanIdle
    /\ ExtIdle /\ ChatIdle /\ StoreIdle

SpecAccts == InitAccts /\ [][AcctsNext]_vars

InitStore ==
    StoreInit /\ CacheInit /\ TurnIdle /\ QueryIdle /\ CodecIdle /\ ScanIdle
    /\ ExtIdle /\ ChatIdle /\ AcctsIdle

SpecStore == InitStore /\ [][StoreNext]_vars

(***************************************************************************)
(*                      CLAIMS ABOUT THE CHAIN CACHE                       *)
(***************************************************************************)

\* C1. Cache freshness: a fetchChain call made after a successful fetch of
\* its ticker and before TTL_MS has elapsed since that fetch returns the list
\* of that fetch and issues no upstream request; a call made when no fetch
\* succeeded yet or TTL_MS has elapsed issues exactly one upstream request.
C1_CacheFreshness ==
    \A c \in Callers :
        calls[c].pc # "idle" =>
            /\ calls[c].freshAtCall =>
                   /\ calls[c].pc = "returned"
                   /\ calls[c].reqs = 0
                   /\ calls[c].result = calls[c].listAtCall
            /\ ~calls[c].freshAtCall => calls[c].reqs = 1

\* C1 witness: one call was served from the cache some minutes after the
\* fetch, and a later call for the same ticker, made after the entry expired,
\* is waiting for its own upstream request.
C1_Witness ==
    \E c, d \in Callers :
        /\ calls[c].pc = "returned" /\ calls[c].freshAtCall
        /\ calls[c].age > 0 /\ calls[c].result # <<>>
        /\ calls[d].pc = "awaitFetch" /\ calls[d].ticker = calls[c].ticker
        /\ lastOk[calls[d].ticker].has
        /\ now - lastOk[calls[d].ticker].at >= TTL_MS

\* C2. No stale fallback: a call whose upstream request failed ends by
\* throwing (also when an expired entry is in the cache), and no call returns
\* a list fetched more than TTL_MS before the call.
C2_NoStaleFallback ==
    \A c \in Callers :
        /\ calls[c].upFailed => calls[c].pc = "thrown"
        /\ calls[c].pc = "returned" => calls[c].age <= TTL_MS

\* C2 witness: a refetch of an expired entry failed and the call threw while
\* the expired entry is still in the cache.
C2_Witness ==
    \E c \in Callers :
        /\ calls[c].pc = "thrown" /\ calls[c].upFailed
        /\ cache[calls[c].ticker].has
        /\ now - cache[calls[c].ticker].ts >= TTL_MS

\* C7. Same-ticker refetch race: calls that find the entry missing or expired
\* each issue their own request and return the list they fetched themselves,
\* and the cache entry of a ticker is exactly the (timestamp, list) written
\* by the call whose fetch completed last.
C7_LastWriterWins ==
    /\ \A c \in Callers :
          /\ (calls[c].pc # "idle" /\ ~calls[c].freshAtCall) => calls[c].reqs = 1
          /\ (calls[c].pc = "returned" /\ calls[c].reqs = 1) =>
                 calls[c].result = calls[c].fetched
    /\ \A t \in Tickers :
          lastDone[t] # 0 =>
             /\ calls[lastDone[t]].pc = "returned"
             /\ cache[t] = [has |-> TRUE, ts |-> calls[lastDone[t]].doneAt,
                            options |-> calls[lastDone[t]].fetched]

\* C7 witness: two overlapping calls for one ticker both fetched, got
\* different lists, and the entry is the one of the call that completed last.
C7_Witness ==
    \E c, d \in Callers :
        /\ c # d /\ d \in calls[c].overlap
        /\ calls[c].pc = "returned" /\ calls[d].pc = "returned"
        /\ calls[c].reqs = 1 /\ calls[d].reqs = 1
        /\ calls[c].fetched # calls[d].fetched
        /\ lastDone[calls[c].ticker] = c
        /\ calls[d].doneAt < calls[c].doneAt
        /\ cache[calls[c].ticker].options = calls[c].fetched

(***************************************************************************)
(*                      CLAIMS ABOUT THE ORCHESTRATOR                      *)
(***************************************************************************)

EventsOfType(ty) == {i \in DOMAIN events : events[i].type = ty}

TextOfEvents == [i \in 1 .. Cardinality(EventsOfType("text")) |->
    events[CHOOSE k \in EventsOfType("text") :
              Cardinality({j \in EventsOfType("text") : j <= k}) = i].text]

C3_Safety ==
    /\ turn.round <= MAX_ROUNDS
    /\ hist.toolRounds <= MAX_ROUNDS
    /\ Cardinality(EventsOfType("done")) <= 1
    /\ turn.pc = "done" =>
          /\ Cardinality(EventsOfType("done")) = 1
          /\ events[Len(events)] = DoneEvent
          /\ turn.res = "ended"
          /\ (turn.hasExecutor /\ hist.noToolRounds = 0) =>
                hist.toolRounds = MAX_ROUNDS
    /\ turn.pc # "done" => EventsOfType("done") = {}
    /\ turn.pc = "failed" => hist.providerFailed

\* C3. Orchestrator termination: for both providers a turn performs at most
\* MAX_ROUNDS tool rounds (exactly MAX_ROUNDS when every tool-round response
\* is a tool invocation), the event stream never holds more than one
\* end-of-turn event and that event is the last one, and every turn whose
\* requests are answered comes to an end: it is done unless a provider
\* request failed.
C3_Termination == []C3_Safety /\ <>(turn.pc \in {"done", "failed"})

\* C3 witness: the provider asked for a tool in all five rounds and again in
\* the final request; the turn is done.
C3_Witness ==
    /\ turn.pc = "done" /\ turn.hasExecutor /\ turn.provider = "anthropic"
    /\ hist.toolRounds = MAX_ROUNDS /\ hist.noToolRounds = 0
    /\ hist.nCreate = MAX_ROUNDS /\ hist.nStream = 1
    /\ events[Len(events)] = DoneEvent

\* C4 (as claimed). Final streaming phase, both providers: a turn with a tool
\* executor that is done has issued exactly one streaming request, over the
\* accumulated message list, and the text events are the streamed text.
C4_FinalStreamingPhase ==
    (turn.pc = "done" /\ turn.hasExecutor) =>
        /\ hist.nStream = 1
        /\ hist.lastRequest = [mode |-> "stream", messages |-> messages]
        /\ TextOfEvents = hist.streamed

\* C5. A tool-free turn emits no tool-invocation event: without an executor
\* no tool-round request is made and the first request is the streaming one;
\* when the first tool-round response requests no tool, the loop is left, no
\* tool-invocation event is emitted and the executor is never called.
C5_ToolFreeTurn ==
    /\ ~turn.hasExecutor =>
          /\ hist.nCreate = 0 /\ hist.toolRounds = 0 /\ hist.nExec = 0
          /\ EventsOfType("tool_call") = {}
          /\ turn.pc \notin {"idle", "start"} =>
                hist.lastRequest = [mode |-> "stream", messages |-> <<UserMessage>>]
    /\ hist.noToolRounds <= 1
    /\ (hist.noToolRounds = 1 /\ hist.toolRounds = 0) =>
          /\ hist.nExec = 0 /\ hist.nCreate = 1
          /\ EventsOfType("tool_call") = {}
          /\ turn.pc \notin {"awaitCreate", "awaitExec"}

\* C5 witness: a turn with an executor whose first response asked for no
\* tool is done and has emitted text.
C5_Witness ==
    /\ turn.pc = "done" /\ turn.hasExecutor
    /\ hist.noToolRounds = 1 /\ hist.toolRounds = 0
    /\ EventsOfType("text") # {}

QueryAnswered ==
    \/ query.pc = "returned"
    \/ query.pc = "toolReturned" /\ query.text.kind # "Error fetching options"

\* the maximum result count the caller asked for
RequestedMax == OrDefault(query.filter.maxResults, 25)

\* C8 (as claimed). Chain query result cap: whether the query is called
\* directly or through the tool executor, the number of contracts returned
\* never exceeds min(requested max, 50).
C8_ResultCap ==
    QueryAnswered =>
        /\ Len(query.out) <= Min(RequestedMax, HARD_CAP)
        /\ query.pc = "toolReturned" => query.text.rows = Len(query.out)

\* the order of the claim on two returned contracts
InOrder(a, b) ==
    \/ a.dte < b.dte
    \/ /\ a.dte = b.dte
       /\ IF query.filter.underlyingPrice.def
          THEN Abs(a.strike - query.filter.underlyingPrice.v)
                  <= Abs(b.strike - query.filter.underlyingPrice.v)
          ELSE a.strike <= b.strike

\* every contract that passes the filters of the query, before the sort
AllPassing ==
    Collected(query.options, Defaults(query.filter), query.nowHalf)

Occurrences(seq, x) == Cardinality({i \in DOMAIN seq : seq[i] = x})

\* C9. Chain query ordering: in every returned list the DTE values are
\* non-decreasing, contracts of equal DTE are ordered by the distance of the
\* strike from the underlying price when it is known and by strike when it
\* is not, and the list is a prefix of that order: it holds only contracts
\* that pass the filters, and every passing contract that comes strictly
\* before the last returned one is returned.
C9_Ordering ==
    QueryAnswered =>
        LET out == query.out
            all == AllPassing
        IN  /\ \A i, j \in DOMAIN out :
                  i < j => /\ out[i].dte <= out[j].dte
                           /\ InOrder(out[i], out[j])
            /\ \A x \in {out[i] : i \in DOMAIN out} :
                  Occurrences(out, x) <= Occurrences(all, x)
            /\ out # <<>> =>
                  \A x \in {all[k] : k \in DOMAIN all} :
                     ~InOrder(out[Len(out)], x) =>
                        Occurrences(out, x) = Occurrences(all, x)

\* C9 witness: a list truncated at the hard cap that holds two expiries, the
\* last contract of the earlier expiry being farther from the underlying
\* price than the first contract of the later one.
C9_Witness ==
    /\ QueryAnswered /\ Len(query.out) = HARD_CAP
    /\ Len(AllPassing) > HARD_CAP
    /\ query.filter.underlyingPrice.def
    /\ \E i \in 1 .. Len(query.out) - 1 :
          /\ query.out[i].dte < query.out[i + 1].dte
          /\ Abs(query.out[i].strike - query.filter.underlyingPrice.v)
                > Abs(query.out[i + 1].strike - query.filter.underlyingPrice.v)

\* C10. Chain query liquidity filter: every returned contract has a mid
\* (bid + ask) / 2 above zero, for any filter settings.
C10_NoIlliquid ==
    QueryAnswered =>
        \A i \in DOMAIN query.out :
            /\ query.out[i].mid = query.out[i].bid + query.out[i].ask
            /\ query.out[i].bid + query.out[i].ask > 0

\* C10 witness: the chain held a contract without a positive mid that passes
\* every other filter, and a liquid one was returned.
C10_Witness ==
    /\ QueryAnswered /\ query.out # <<>>
    /\ ~query.filter.type.def /\ ~query.filter.dteMin.def
    /\ query.filter.otmOnly = Val(FALSE)
    /\ \E i \in DOMAIN query.options :
          /\ ParseOCC(query.options[i].option).ok
          /\ MidOf(query.options[i]) <= 0


(***************************************************************************)
(*                 CLAIMS ABOUT THE MONEYNESS FILTER                       *)
(***************************************************************************)

\* the filter getFilteredChain was called with: the caller's, or the one the
\* tool executor built from its input
CalledFilter ==
    IF query.pc = "toolReturned"
    THEN ExecutorFilter(query.filter, query.filter.underlyingPrice)
    ELSE query.filter

\* the example of the claim: calls at 100, 110 and 120
ExampleCalls ==
    <<[option |-> XyzSymbol(Exp1202, "C", 100000), bid |-> 200, ask |-> 400],
      [option |-> XyzSymbol(Exp1202, "C", 110000), bid |-> 100, ask |-> 101],
      [option |-> XyzSymbol(Exp1122, "C", 120000), bid |-> 50, ask |-> 60]>>

ExampleOtm ==
    GetFilteredChain(ExampleCalls,
        [type |-> Undef, dteMin |-> Undef, dteMax |-> Undef,
         otmOnly |-> Val(TRUE), underlyingPrice |-> Val(105000),
         maxResults |-> Undef],
        2 * DaysFromCivil(2026, 11, 2))

\* C11. Chain query moneyness filter: with the OTM-only flag set and an
\* underlying price supplied, every returned call has a strike strictly
\* above the price and every returned put a strike strictly below it (calls
\* at 100/110/120 with price 105 leave 110 and 120); without an underlying
\* price the result is the one the query gives with the flag off.
C11_Moneyness ==
    /\ {ExampleOtm[i].strike : i \in DOMAIN ExampleOtm} = {110000, 120000}
    /\ QueryAnswered =>
          LET f == Defaults(CalledFilter)
          IN  /\ (f.otmOnly /\ f.underlyingPrice.def) =>
                    \A i \in DOMAIN query.out :
                       IF query.out[i].type = "call"
                       THEN query.out[i].strike > f.underlyingPrice.v
                       ELSE query.out[i].strike < f.underlyingPrice.v
              /\ ~f.underlyingPrice.def =>
                    query.out = GetFilteredChain(query.options,
                        [CalledFilter EXCEPT !.otmOnly = Val(FALSE)],
                        query.nowHalf)

\* C11 witness: with the flag set, a liquid call struck exactly at the
\* underlying price was in the chain and another contract was returned.
C11_Witness ==
    /\ QueryAnswered /\ query.out # <<>>
    /\ Defaults(CalledFilter).otmOnly /\ query.filter.underlyingPrice.def
    /\ \E i \in DOMAIN query.options :
          LET parsed == ParseOCC(query.options[i].option)
          IN  /\ parsed.ok /\ parsed.type = "call"
              /\ parsed.strike = query.filter.underlyingPrice.v
              /\ Liquid(query.options[i])


(***************************************************************************)
(*                    CLAIMS ABOUT THE SYMBOL CODEC                        *)
(***************************************************************************)

\* the contract is in the domain of the claim: a ticker of uppercase
\* letters, a strike that is a multiple of 0.001 and fits in 8 scaled
\* digits, an expiry in 2000-2099
CodecDomain ==
    /\ \A i \in DOMAIN codec.ticker : codec.ticker[i] \in UpperCase
    /\ codec.strike10 % 10 = 0 /\ codec.strike10 \div 10 < 100000000
    /\ SubSeq(codec.expiration, 1, 2) = <<"2", "0">>

\* the ticker of a decoded record: `parsed.ticker`, undefined when the
\* record has no such property
TickerOf(parsed) ==
    IF "ticker" \in DOMAIN parsed THEN Val(parsed.ticker) ELSE Undef

\* kind, strike and expiry of the decoded key are those of the contract
KindStrikeExpiryBack ==
    /\ codec.parsed.ok
    /\ codec.parsed.type = codec.type
    /\ 10 * codec.parsed.strike = codec.strike10
    /\ codec.parsed.expiry = codec.expiration

CleanChain == SelectSeq(scan.chain, LAMBDA o : o.defect = "none")

\* well-formed symbols to be damaged
SampleSymbols ==
    {XyzSymbol(e, cp, k) : e \in {Exp1122, Exp1212}, cp \in {"C", "P"},
                           k \in {100000, 5}}

\* C13. Decoding a malformed symbol (wrong length, a non-digit in the date
\* or strike field, a kind character other than C or P, an empty or
\* lowercase ticker) returns none, and getOptionMid, calcIV30 and
\* getFilteredChain each return what they return for the chain without the
\* malformed records.
C13_MalformedSkipped ==
    /\ \A sym \in SampleSymbols, df \in Defects :
          ParseOCC(sym).ok /\ ParseOCC(Corrupt(sym, df)) = NoParse
    /\ \A i \in DOMAIN scan.chain :
          scan.chain[i].defect # "none" =>
             ParseOCC(scan.chain[i].option) = NoParse
    /\ scan.pc = "mid" =>
          scan.mid = GetOptionMid([threw |-> FALSE, options |-> CleanChain],
                        scan.key.type, scan.key.strike10, scan.key.expiry)
    /\ scan.pc = "iv" =>
          scan.iv = CalcIV30(CleanChain, scan.price, scan.nowHalf)
    /\ scan.pc = "query" =>
          scan.out = GetFilteredChain(CleanChain, ScanFilter, scan.nowHalf)

\* C13 witness: getOptionMid found a contract behind a record whose symbol
\* has a kind character other than C or P.
C13_Witness ==
    /\ scan.pc = "mid" /\ scan.mid.found
    /\ Len(scan.chain) >= 2 /\ scan.chain[1].defect = "kind"

\* the records of the chain that are the contract asked for
KeyMatches ==
    {i \in DOMAIN scan.chain :
        LET p == ParseOCC(scan.chain[i].option)
        IN  /\ p.ok
            /\ p.type = KindToLowerCase(scan.key.type)
            /\ p.expiry = scan.key.expiry
            /\ 10 * p.strike - scan.key.strike10 \in -49 .. 49}

\* C14. getMid never raises: it returns none when the chain fetch fails or
\* no contract matches, and otherwise the first contract in chain order
\* whose decoded kind and expiry are equal and whose strike differs by less
\* than 0.005, with mid equal to (bid + ask) / 2.
C14_GetMid ==
    /\ scan.pc = "midFetchFailed" => scan.mid = NoMid
    /\ scan.pc = "mid" =>
          IF KeyMatches = {} THEN scan.mid = NoMid
          ELSE LET k == CHOOSE i \in KeyMatches : \A j \in KeyMatches : i <= j
               IN  /\ scan.mid.found
                   /\ scan.mid.bid = scan.chain[k].bid
                   /\ scan.mid.ask = scan.chain[k].ask
                   /\ scan.mid.mid = scan.chain[k].bid + scan.chain[k].ask

\* C14 witness: two records with different quotes are the contract asked
\* for, one of them 0.0049 away from the strike.
C14_Witness ==
    /\ scan.pc = "mid" /\ scan.mid.found
    /\ scan.key.strike10 = 1000049
    /\ \E i, j \in KeyMatches :
          i < j /\ scan.chain[i].bid # scan.chain[j].bid


(***************************************************************************)
(*               CLAIMS ABOUT THE MUTATION PROTOCOL PARSER                 *)
(***************************************************************************)

Count(text, tok) == Cardinality({i \in DOMAIN text : text[i] = tok})

\* the text holds an opening delimiter with a closing delimiter behind it
HasBlock ==
    \E i, j \in DOMAIN ext.text :
        i < j /\ ext.text[i] = OpenDelim /\ ext.text[j] = CloseDelim

\* the position of the first opening and of the first closing delimiter
FirstOpen == CHOOSE i \in DOMAIN ext.text :
                /\ ext.text[i] = OpenDelim
                /\ \A k \in 1 .. i - 1 : ext.text[k] # OpenDelim

FirstClose == CHOOSE j \in DOMAIN ext.text :
                 /\ ext.text[j] = CloseDelim
                 /\ \A k \in 1 .. j - 1 : ext.text[k] # CloseDelim

\* The text holds one delimited block and no other delimiter, and between
\* the delimiters there is, whitespace aside, the document doc.
OneBlockOf(doc) ==
    /\ Count(ext.text, OpenDelim) = 1 /\ Count(ext.text, CloseDelim) = 1
    /\ FirstOpen < FirstClose
    /\ \E k \in FirstOpen + 1 .. FirstClose - 1 :
          /\ ext.text[k] = doc
          /\ \A n \in FirstOpen + 1 .. FirstClose - 1 :
                n # k => ext.text[n] = Space

\* the text with the one block taken out
BlockRemoved ==
    SubSeq(ext.text, 1, FirstOpen - 1)
       \o SubSeq(ext.text, FirstClose + 1, Len(ext.text))

\* shown is whole without the whitespace at its two ends
IsTrimOf(shown, whole) ==
    /\ shown = <<>> \/ (shown[1] # Space /\ shown[Len(shown)] # Space)
    /\ \E lo \in 1 .. Len(whole) + 1 :
          /\ lo + Len(shown) - 1 <= Len(whole)
          /\ shown = SubSeq(whole, lo, lo + Len(shown) - 1)
          /\ \A k \in DOMAIN whole :
                (k < lo \/ k > lo + Len(shown) - 1) => whole[k] = Space

\* C15 (as claimed). Mutation parser success case: for text containing one
\* delimited block whose payload is well-formed with target "holdings",
\* extract returns a MutationCommand with target "holdings" and a display
\* text equal to the original with the delimited block removed.
C15_BlockRemovedExactly ==
    (ext.pc = "extracted" /\ OneBlockOf(HoldingsJson)) =>
        /\ ext.update = [has |-> TRUE, file |-> "holdings"]
        /\ ext.clean = BlockRemoved

\* C15 (amended). For text containing one delimited block whose payload is
\* well-formed with target "holdings" (or "strategy"), extract returns a
\* MutationCommand with that target and a display text equal to the
\* original with the delimited block removed and the whitespace at both
\* ends of the remainder stripped.
C15_SuccessCase ==
    /\ (ext.pc = "extracted" /\ OneBlockOf(HoldingsJson)) =>
          /\ ext.update = [has |-> TRUE, file |-> "holdings"]
          /\ IsTrimOf(ext.clean, BlockRemoved)
    /\ (ext.pc = "extracted" /\ OneBlockOf(StrategyJson)) =>
          /\ ext.update = [has |-> TRUE, file |-> "strategy"]
          /\ IsTrimOf(ext.clean, BlockRemoved)

\* C15 witness: prose, whitespace, then a holdings block at the end of the
\* text; the display text is shorter than the text without the block.
C15_Witness ==
    /\ ext.pc = "extracted" /\ OneBlockOf(HoldingsJson)
    /\ ext.update.has
    /\ FirstClose = Len(ext.text)
    /\ ext.clean # <<>> /\ Len(ext.clean) < Len(BlockRemoved)

\* C16. Mutation parser without delimiters: for every text that does not
\* contain the opening delimiter followed later by the closing delimiter,
\* extract returns no MutationCommand and a display text identical to the
\* input.
C16_NoDelimiters ==
    (ext.pc = "extracted" /\ ~HasBlock) =>
        /\ ext.update = NoUpdate
        /\ ext.clean = ext.text

\* C16 witness: a text that starts with whitespace and holds a closing
\* delimiter before an opening one has been parsed.
C16_Witness ==
    /\ ext.pc = "extracted" /\ ~HasBlock
    /\ Len(ext.text) >= 3 /\ ext.text[1] = Space
    /\ Count(ext.text, OpenDelim) = 1 /\ Count(ext.text, CloseDelim) = 1

\* the first closing delimiter behind the first opening delimiter
CloseOfFirst ==
    CHOOSE j \in DOMAIN ext.text :
        /\ j > FirstOpen /\ ext.text[j] = CloseDelim
        /\ \A k \in FirstOpen + 1 .. j - 1 : ext.text[k] # CloseDelim

\* the payload between the first delimiters is not one JSON document
FirstPayloadFails ==
    ~\E k \in FirstOpen + 1 .. CloseOfFirst - 1 :
        /\ ext.text[k] \in {HoldingsJson, StrategyJson}
        /\ \A n \in FirstOpen + 1 .. CloseOfFirst - 1 :
              n # k => ext.text[n] = Space

\* C17. Mutation parser fails open: when the payload between the delimiters
\* does not parse as structured data, extract returns no MutationCommand and
\* the display text is the original response verbatim, including the
\* unparsed block.
C17_FailsOpen ==
    (ext.pc = "extracted" /\ HasBlock /\ FirstPayloadFails) =>
        /\ ext.update = NoUpdate
        /\ ext.clean = ext.text

\* C17 witness: a block of prose is followed by a well-formed block, and the
\* text ends with whitespace.
C17_Witness ==
    /\ ext.pc = "extracted" /\ HasBlock /\ FirstPayloadFails
    /\ \E k \in DOMAIN ext.text : k > CloseOfFirst /\ ext.text[k] = HoldingsJson
    /\ ext.text[Len(ext.text)] = Space

\* C18 (as claimed). At most one mutation block is recognized per response,
\* and whenever extraction succeeds the display text contains no delimited
\* block: for every response text, including text with two or more
\* delimited blocks, the display text returned with a MutationCommand
\* contains neither delimiter.
C18_NoDelimiterShown ==
    (ext.pc = "extracted" /\ ext.update.has) =>
        /\ Count(ext.clean, OpenDelim) = 0
        /\ Count(ext.clean, CloseDelim) = 0


(***************************************************************************)
(*                CLAIMS ABOUT THE VOLATILITY ESTIMATOR                    *)
(***************************************************************************)

\* the points of the term structure of the chain that was read
TermPoints ==
    LET ts == TermStructure(scan.chain, scan.price, scan.nowHalf)
    IN  {ts[k] : k \in DOMAIN ts}

\* the nearest point below and the nearest point above 30 days
NearestBelow ==
    CHOOSE t \in TermPoints :
        t.dte < 60 /\ \A u \in TermPoints : u.dte < 60 => u.dte <= t.dte

NearestAbove ==
    CHOOSE t \in TermPoints :
        t.dte > 60 /\ \A u \in TermPoints : u.dte > 60 => t.dte <= u.dte

\* noon of 2026-11-02, when the expiries are whole days away
Noon == 2 * DaysFromCivil(2026, 11, 2) + 1

\* the example of C19: DTE 20 with IV 0.30 and DTE 40 with IV 0.40
Example2040 ==
    CalcIV30(<<RawOption(XyzSymbol(Exp1122, "C", 100000), 200, 400, 300, "none"),
               RawOption(XyzSymbol(Exp1212, "C", 100000), 300, 500, 400, "none")>>,
             100000, Noon)

\* C19. Volatility estimator interpolation: when the term structure has no
\* point within 1 day of DTE 30 but has points on both sides, calcIV30
\* returns the linear interpolation at 30 between the nearest point below
\* and the nearest point above (DTE 20 / IV 0.30 and DTE 40 / IV 0.40 give
\* 0.35), and the result lies between those two IVs.
C19_Interpolation ==
    /\ Example2040.ok /\ Example2040.num = 350 * Example2040.den
    /\ (/\ scan.pc = "iv"
        /\ \A t \in TermPoints : ~(Abs(t.dte - 60) < 2)
        /\ \E t \in TermPoints : t.dte < 60
        /\ \E t \in TermPoints : t.dte > 60) =>
          LET t1 == NearestBelow
              t2 == NearestAbove
          IN  /\ scan.iv.ok /\ scan.iv.den > 0
              /\ scan.iv.num * 2 * (t2.dte - t1.dte)
                    = scan.iv.den * (t1.iv * (t2.dte - t1.dte)
                                       + (60 - t1.dte) * (t2.iv - t1.iv))
              /\ Min(t1.iv, t2.iv) * scan.iv.den <= 2 * scan.iv.num
              /\ 2 * scan.iv.num <= Max(t1.iv, t2.iv) * scan.iv.den

\* C19 witness: two points below 30 days and one above, at a time of day
\* that puts 30 days off the middle of the nearest two.
C19_Witness ==
    /\ scan.pc = "iv" /\ scan.iv.ok
    /\ Cardinality({t \in TermPoints : t.dte < 60}) = 2
    /\ Cardinality({t \in TermPoints : t.dte > 60}) = 1
    /\ \A t \in TermPoints : ~(Abs(t.dte - 60) < 2)
    /\ 60 - NearestBelow.dte # NearestAbove.dte - 60

\* the example of C20: a single expiry at DTE 10
Example10 ==
    CalcIV30(<<RawOption(XyzSymbol(Exp1112, "C", 100000), 90, 110, 200, "none")>>,
             100000, Noon)

\* C20. Volatility estimator flat clamp: when every surviving point of the
\* term structure lies on one side of DTE 30 (a single expiry at DTE 10,
\* say), calcIV30 returns the IV of the point nearest to 30 on that side
\* unchanged.
C20_FlatClamp ==
    /\ Example10.ok /\ Example10.num = 200 * Example10.den
    /\ (scan.pc = "iv" /\ TermPoints # {}) =>
          /\ (\A t \in TermPoints : t.dte < 60) =>
                /\ scan.iv.ok
                /\ 2 * scan.iv.num = NearestBelow.iv * scan.iv.den
          /\ (\A t \in TermPoints : t.dte > 60) =>
                /\ scan.iv.ok
                /\ 2 * scan.iv.num = NearestAbove.iv * scan.iv.den

\* C20 witness: two points with different IVs, both more than a day below
\* 30 days, and a third expiry dropped for being less than 5 days away.
C20_Witness ==
    /\ scan.pc = "iv" /\ scan.iv.ok
    /\ Cardinality(TermPoints) = 2 /\ Len(ExpiriesOf(scan.chain)) = 3
    /\ \A t \in TermPoints : t.dte < 58
    /\ \E t, u \in TermPoints : t.iv # u.iv


\* the contract can give a term-structure point: its symbol decodes, its iv
\* is positive and its expiry is at least 5 days away
Usable(opt) ==
    /\ opt.defect = "none"
    /\ opt.iv > 0
    /\ ExpiryNoon(ParseOCC(opt.option).expiry) - scan.nowHalf >= 10

\* C21. Volatility estimator empty case: calcIV30 returns none whenever no
\* term-structure point survives, that is when every contract has a
\* non-positive IV, an undecodable symbol, or an expiry with DTE below 5
\* (and only then); a contract with non-positive IV never contributes: the
\* estimate is the one of the chain without such contracts.
C21_EmptyCase ==
    scan.pc = "iv" =>
        /\ scan.iv = NoIV <=> \A i \in DOMAIN scan.chain : ~Usable(scan.chain[i])
        /\ scan.iv = CalcIV30(SelectSeq(scan.chain, LAMBDA o : o.iv > 0),
                              scan.price, scan.nowHalf)

\* C21 witness: a malformed record, a contract without IV and a contract 4
\* days from expiry were read, and there is no estimate.
C21_Witness ==
    /\ scan.pc = "iv" /\ scan.iv = NoIV
    /\ \E i, j, k \in DOMAIN scan.chain :
          /\ scan.chain[i].defect # "none"
          /\ scan.chain[j].defect = "none" /\ scan.chain[j].iv = 0
          /\ scan.chain[k].defect = "none" /\ scan.chain[k].iv > 0

(***************************************************************************)
(*                     CLAIMS ABOUT THE CHAT CLIENT                        *)
(***************************************************************************)

\* C22 (No AI mode).  While the selected provider is 'none', no step of the
\* chat client (typing, Enter, Send, or anything else) issues a request to
\* the chat endpoint: the list of requests sent is the same after the step.
C22_NoAIMode == [][chat.provider = "none" => chat'.sent = chat.sent]_vars

\* sendMessage was called under 'none' with a text it would otherwise have
\* sent, and returned without a request
C22_Witness ==
    /\ chat.provider = "none"
    /\ chat.last = [outcome |-> "ignored", provider |-> "none", sendable |-> TRUE]
    /\ chat.sent = <<>>

\* C23 (approve before save).  A pending command is written at most once:
\* no two save requests were issued for the same extracted command.
C23_AppliedOnce ==
    \A i, j \in DOMAIN chat.puts :
        chat.puts[i].id = chat.puts[j].id => i = j

\* C25 (command schema).  The command handed to the approve / reject
\* workflow names the file holdings or strategy.
C25_Schema ==
    chat.pendingUpdate.has => chat.pendingUpdate.file \in {"holdings", "strategy"}

\* the concatenation of the texts of the partial-text events of a sequence
RECURSIVE TextOfWire(_)
TextOfWire(evs) ==
    IF evs = <<>> THEN <<>>
    ELSE (IF Head(evs).kind = "text" THEN Head(evs).text ELSE <<>>)
         \o TextOfWire(Tail(evs))

\* C27 (client stream consumption).  The text accumulated by the client is
\* the concatenation of the texts of the partial-text events read so far;
\* tool-invocation events and the end marker add nothing.
C27_TextOnly == chat.fullText = TextOfWire(chat.consumed)

(***************************************************************************)
(*                 CLAIMS ABOUT THE TOOL ROUND PROTOCOL                    *)
(***************************************************************************)

\* the invocations recorded in the working message list, in order
RECURSIVE RecordedCalls(_)
RecordedCalls(msgs) ==
    IF msgs = <<>> THEN <<>>
    ELSE (IF Head(msgs).kind = "tool_use"
          THEN [i \in DOMAIN Head(msgs).items |-> Head(msgs).items[i].call]
          ELSE <<>>) \o RecordedCalls(Tail(msgs))

\* the invocations announced on the response, in order
RECURSIVE AnnouncedCalls(_)
AnnouncedCalls(evs) ==
    IF evs = <<>> THEN <<>>
    ELSE (IF Head(evs).type = "tool_call" THEN <<Head(evs).call>> ELSE <<>>)
         \o AnnouncedCalls(Tail(evs))

\* C24 (tool round protocol order).  While the executor runs for the k-th
\* invocation of a round, the announced invocations are those of the closed
\* rounds followed by the first k of this round, in the order requested, and
\* the results so far are those of the first k - 1; outside a round the
\* announced invocations are exactly the recorded ones.  Whenever a provider
\* request is outstanding it was made over the working list, which holds,
\* for every tool round so far, the invocation record followed by a message
\* with one result per invocation, in the same order.
C24_RoundProtocol ==
    /\ turn.pc = "awaitExec" =>
          /\ AnnouncedCalls(events) =
                RecordedCalls(messages) \o SubSeq(turn.blocks, 1, turn.idx)
          /\ Len(turn.results) = turn.idx - 1
          /\ \A j \in DOMAIN turn.results :
                turn.results[j].call = turn.blocks[j]
          /\ hist.nExec = Len(AnnouncedCalls(events))
    /\ turn.pc # "awaitExec" => AnnouncedCalls(events) = RecordedCalls(messages)
    /\ turn.pc \in {"awaitCreate", "awaitStream"} =>
          /\ hist.lastRequest.messages = messages
          /\ Len(messages) = 1 + 2 * hist.toolRounds
          /\ \A r \in 1 .. hist.toolRounds :
                /\ messages[2 * r].kind = "tool_use"
                /\ messages[2 * r].role = "assistant"
                /\ messages[2 * r + 1].kind = "tool_result"
                /\ DOMAIN messages[2 * r + 1].items = DOMAIN messages[2 * r].items
                /\ \A j \in DOMAIN messages[2 * r].items :
                      /\ messages[2 * r + 1].items[j].call =
                            messages[2 * r].items[j].call
                      /\ messages[2 * r + 1].items[j].result # NoResult

\* C24 witness: the second invocation of a two-invocation round is being
\* executed after an earlier round was closed and fed back.
C24_Witness ==
    /\ turn.pc = "awaitExec" /\ turn.idx = 2 /\ Len(turn.blocks) = 2
    /\ hist.toolRounds = 2 /\ Len(messages) = 3
    /\ Len(AnnouncedCalls(events)) = 3

(***************************************************************************)
(*                    CLAIMS ABOUT A FAILED CHAIN FETCH                    *)
(***************************************************************************)

\* the step in which the upstream request of caller c fails
FailsNow(c) == calls'[c].upFailed /\ ~calls[c].upFailed

\* C26 (a failed chain fetch changes nothing in the cache).  The step in
\* which the upstream request of a call fails leaves every cache entry
\* (timestamp and list, of this ticker and of all others) as it was and ends
\* the call with the error after its one upstream request; and a call that
\* failed is never the writer of an entry.
C26_FailureFrame ==
    /\ [][\A c \in Callers : FailsNow(c) =>
             /\ cache' = cache
             /\ calls'[c].pc = "thrown"
             /\ calls'[c].reqs = 1
             /\ \A d \in Callers \ {c} : calls'[d] = calls[d]]_vars
    /\ [](\A c \in Callers : calls[c].upFailed =>
             /\ calls[c].reqs = 1
             /\ \A t \in Tickers : lastDone[t] # c)

\* C26 witness: a refetch of an expired entry failed; the expired entry and
\* an entry of the other ticker are still in the cache.
C26_Witness ==
    \E c \in Callers :
        /\ calls[c].pc = "thrown" /\ calls[c].upFailed
        /\ cache[calls[c].ticker].has
        /\ ~IsFresh(cache[calls[c].ticker], now)
        /\ cache[calls[c].ticker].options # <<>>
        /\ \E t \in Tickers \ {calls[c].ticker} : cache[t].has

(***************************************************************************)
(*                  CLAIMS ABOUT THE END OF THE RESPONSE                   *)
(***************************************************************************)

\* C28 (every chat turn's response is eventually closed).  In every turn
\* whose awaited requests settle, the response is at some point ended,
\* by the end-of-turn event or by the error response.
C28_EventuallyClosed == <>(turn.res \in {"ended", "error500"})

(***************************************************************************)
(*                       CLAIMS ABOUT THE ACCOUNTS                         *)
(***************************************************************************)

\* C29 (active account validity).  After any sequence of create, switch,
\* rename and delete requests the active id names an account that exists.
C29_ActiveValid == AccountExists(accts, GetActiveAccountId(accts))

\* The part of C29 that holds: the demo account is never deleted.
DemoKept == AccountExists(accts, "demo")

(***************************************************************************)
(*                    CLAIMS ABOUT THE HOLDINGS ROUTES                     *)
(***************************************************************************)

\* the holdings after the two requests were handled one after the other
SerialOutcomes ==
    {Applied(store.reqs[2], Applied(store.reqs[1], OldHoldings)),
     Applied(store.reqs[1], Applied(store.reqs[2], OldHoldings))}

\* C30 (no lost holdings updates).  When both overlapping requests have
\* reported success, the stored holdings are those of handling the two one
\* after the other, in one of the two orders: both changes are reflected.
C30_NoLostUpdate ==
    (\A r \in Reqs : store.reqs[r].pc = "success") =>
        store.holdings \in SerialOutcomes

=============================================================================
